---- MODULE Spec2Model ----
(***************************************************************************)
(* A model of the courier client SDK (pyiron/courier): address             *)
(* normalisation, URL joining, endpoint-response rectification and         *)
(* parsing, dataset-name extraction, the endpoint and dataset listings,    *)
(* the clients with their sessions and tokens, the dataset operations,     *)
(* the SPARQL query and the tabularisation of its result.                  *)
(*                                                                         *)
(* A Python str is modelled as a sequence of one-character strings, so     *)
(* that replace/strip/split/find act on characters as they do in Python.   *)
(* The outcome of a call is a record [ok, val, err, msg]: ok = TRUE with   *)
(* the returned value in val, or ok = FALSE with the exception class in    *)
(* err and the text the message names in msg.                              *)
(***************************************************************************)
EXTENDS Integers, Sequences, FiniteSets, TLC

VARIABLES
    address,    \* normalize_base_url: the address argument
    opts,       \* normalize_base_url: default_scheme, allowed_schemes, require_host_only
    fed,        \* TRUE when address is the value an earlier normalize_base_url returned
    base,       \* join_url: the base argument
    segments,   \* join_url: the segments argument
    text,       \* raw body of the /api/v1/endpoints response
    rectify,    \* the rectify / rectify_legacy flag
    endpoints,  \* extract_dataset_names: the sparql_endpoints argument
    server,     \* the status the server answers the next request with (0: no response)
    args,       \* the arguments of a dataset, query or tabularisation call
    wire,       \* what the calls did outside the process since the caller last looked:
                \* requests sent, files opened and closed
    sessions,   \* the headers of each HTTP session (its Authorization value)
    clients,    \* the clients constructed so far
    call,       \* the operation that ran last ("none" before any)
    ret         \* its outcome

vars == <<address, opts, fed, base, segments, text, rectify, endpoints, server,
          args, wire, sessions, clients, call, ret>>

-----------------------------------------------------------------------------
(* Outcomes *)

NoVal == <<>>

Ok(v) == [ok |-> TRUE, val |-> v, err |-> "", msg |-> NoVal]

Raise(kind, m) == [ok |-> FALSE, val |-> NoVal, err |-> kind, msg |-> m]

Idle == [ok |-> TRUE, val |-> NoVal, err |-> "", msg |-> NoVal]

(* Python values that may be None: a token, the value headers.get() gives *)

PyNone == [none |-> TRUE, s |-> <<>>]

PyVal(v) == [none |-> FALSE, s |-> v]

\* "if x": None and the empty str are false
Truthy(x) == ~x.none /\ x.s # <<>>

\* no client constructed, no argument passed, nothing sent or opened
Quiet == args = NoVal /\ wire = <<>> /\ sessions = <<>> /\ clients = <<>>

-----------------------------------------------------------------------------
(* Python str primitives on character sequences *)

MinOf(S) == CHOOSE k \in S : \A j \in S : k <= j

\* s[i:] with a 1-based i
From(s, i) == SubSeq(s, i, Len(s))

\* s.find(p, from) with 1-based positions; 0 stands for Python's -1
Find(s, p, from) ==
    LET C == {k \in from..(Len(s) - Len(p) + 1) : SubSeq(s, k, k + Len(p) - 1) = p}
    IN  IF C = {} THEN 0 ELSE MinOf(C)

\* p in s
Contains(s, p) == Find(s, p, 1) # 0

\* c in s, for one character
HasChar(s, c) == \E k \in 1..Len(s) : s[k] = c

\* s.replace(old, new): every non-overlapping occurrence, scanning left to right
RECURSIVE Replace(_, _, _)
Replace(s, old, new) ==
    LET k == Find(s, old, 1)
    IN  IF k = 0 THEN s
        ELSE SubSeq(s, 1, k - 1) \o new \o Replace(From(s, k + Len(old)), old, new)

\* s.lstrip(chars), s.rstrip(chars), s.strip(chars)
LStripChars(s, chars) ==
    LET K == {k \in 1..Len(s) : s[k] \notin chars}
    IN  IF K = {} THEN <<>> ELSE From(s, MinOf(K))

RStripChars(s, chars) ==
    LET K == {k \in 1..Len(s) : s[k] \notin chars}
    IN  IF K = {} THEN <<>> ELSE SubSeq(s, 1, CHOOSE k \in K : \A j \in K : j <= k)

StripChars(s, chars) == LStripChars(RStripChars(s, chars), chars)

\* the characters str.strip() removes without an argument
Whitespace == {" ", "\t", "\n", "\r", "\f"}

Strip(s) == StripChars(s, Whitespace)

\* "not s or not s.strip()"
Blank(s) == s = <<>> \/ Strip(s) = <<>>

\* s.split(sep) for a one-character sep: a sequence of strings
RECURSIVE Split(_, _)
Split(s, sep) ==
    LET k == Find(s, <<sep>>, 1)
    IN  IF k = 0 THEN <<s>>
        ELSE <<SubSeq(s, 1, k - 1)>> \o Split(From(s, k + 1), sep)

\* sep.join(parts)
RECURSIVE Join(_, _)
Join(sep, parts) ==
    IF parts = <<>> THEN <<>>
    ELSE IF Len(parts) = 1 THEN parts[1]
    ELSE parts[1] \o sep \o Join(sep, Tail(parts))

LowerAlpha == <<"a","b","c","d","e","f","g","h","i","j","k","l","m",
                "n","o","p","q","r","s","t","u","v","w","x","y","z">>

UpperAlpha == <<"A","B","C","D","E","F","G","H","I","J","K","L","M",
                "N","O","P","Q","R","S","T","U","V","W","X","Y","Z">>

Digits == {"0","1","2","3","4","5","6","7","8","9"}

Letters == {LowerAlpha[i] : i \in 1..26} \cup {UpperAlpha[i] : i \in 1..26}

LowerChar(c) ==
    IF \E i \in 1..26 : UpperAlpha[i] = c
    THEN LowerAlpha[CHOOSE i \in 1..26 : UpperAlpha[i] = c]
    ELSE c

\* s.lower()
Lower(s) == [k \in 1..Len(s) |-> LowerChar(s[k])]

-----------------------------------------------------------------------------
(* urllib.parse.urlsplit and urlunsplit, as the code calls them *)

scheme_chars == Letters \cup Digits \cup {"+", "-", "."}

C0ControlOrSpace == {" ", "\t", "\n", "\r", "\f"}

UnsafeUrlBytes == {"\t", "\r", "\n"}

RemoveUnsafe(url) == SelectSeq(url, LAMBDA c : c \notin UnsafeUrlBytes)

\* The scheme step: (scheme, rest) of a cleaned url
SplitScheme(url) ==
    LET i == Find(url, <<":">>, 1)
    IN  IF i > 1 /\ url[1] \in Letters /\ \A k \in 1..(i - 1) : url[k] \in scheme_chars
        THEN [scheme |-> Lower(SubSeq(url, 1, i - 1)), rest |-> From(url, i + 1)]
        ELSE [scheme |-> <<>>, rest |-> url]

\* _splitnetloc(url, 2): the authority ends at the first of "/", "?", "#"
SplitNetloc(url) ==
    LET D == {k \in 3..Len(url) : url[k] \in {"/", "?", "#"}}
        delim == IF D = {} THEN Len(url) + 1 ELSE MinOf(D)
    IN  [netloc |-> SubSeq(url, 3, delim - 1), rest |-> From(url, delim)]

\* url.split(c, 1) when c is in url: (before, after)
Cut(url, c) ==
    LET k == Find(url, <<c>>, 1)
    IN  IF k = 0 THEN [head |-> url, tail |-> <<>>]
        ELSE [head |-> SubSeq(url, 1, k - 1), tail |-> From(url, k + 1)]

\* urlsplit(url): raised = TRUE stands for ValueError("Invalid IPv6 URL")
UrlSplit(url0) ==
    LET url  == RemoveUnsafe(LStripChars(url0, C0ControlOrSpace))
        s    == SplitScheme(url)
        hasN == Len(s.rest) >= 2 /\ SubSeq(s.rest, 1, 2) = <<"/", "/">>
        n    == IF hasN THEN SplitNetloc(s.rest) ELSE [netloc |-> <<>>, rest |-> s.rest]
        bad  == \/ HasChar(n.netloc, "[") /\ ~HasChar(n.netloc, "]")
                \/ HasChar(n.netloc, "]") /\ ~HasChar(n.netloc, "[")
        f    == Cut(n.rest, "#")
        q    == Cut(f.head, "?")
    IN  [raised   |-> bad,
         scheme   |-> s.scheme,
         netloc   |-> n.netloc,
         path     |-> q.head,
         query    |-> q.tail,
         fragment |-> f.tail]

\* urlunsplit((scheme, netloc, "", "", "")) for a non-empty netloc
UrlUnsplitBase(scheme, netloc) ==
    LET url == <<"/", "/">> \o netloc
    IN  IF scheme # <<>> THEN scheme \o <<":">> \o url ELSE url

-----------------------------------------------------------------------------
(* courier/http/url.py *)

SchemeSep == <<":", "/", "/">>

\* normalize_base_url without the whitespace trim of line 51
normalize_base_url_NoStrip(addr, default_scheme, allowed_schemes, require_host_only) ==
    IF Blank(addr) THEN Raise("InvalidAddressError", addr)
    ELSE
    LET candidate == IF Contains(addr, SchemeSep) THEN addr
                     ELSE default_scheme \o SchemeSep \o addr
        parts     == UrlSplit(candidate)
        scheme    == Lower(IF parts.scheme # <<>> THEN parts.scheme ELSE default_scheme)
    IN  IF parts.raised THEN Raise("ValueError", <<>>)
        ELSE IF scheme \notin allowed_schemes THEN Raise("InvalidAddressError", scheme)
        ELSE IF parts.netloc = <<>> THEN Raise("InvalidAddressError", addr)
        ELSE IF /\ require_host_only
                /\ \/ parts.path \notin {<<>>, <<"/">>}
                   \/ parts.query # <<>>
                   \/ parts.fragment # <<>>
             THEN Raise("InvalidAddressError", addr)
        ELSE Ok(UrlUnsplitBase(scheme, parts.netloc))

\* normalize_base_url with require_host_only rejecting the root path as well
normalize_base_url_NoRootPath(addr, default_scheme, allowed_schemes, require_host_only) ==
    IF Blank(addr) THEN Raise("InvalidAddressError", addr)
    ELSE
    LET raw       == Strip(addr)
        candidate == IF Contains(raw, SchemeSep) THEN raw
                     ELSE default_scheme \o SchemeSep \o raw
        parts     == UrlSplit(candidate)
        scheme    == Lower(IF parts.scheme # <<>> THEN parts.scheme ELSE default_scheme)
    IN  IF parts.raised THEN Raise("ValueError", <<>>)
        ELSE IF scheme \notin allowed_schemes THEN Raise("InvalidAddressError", scheme)
        ELSE IF parts.netloc = <<>> THEN Raise("InvalidAddressError", addr)
        ELSE IF /\ require_host_only
                /\ \/ parts.path # <<>>
                   \/ parts.query # <<>>
                   \/ parts.fragment # <<>>
             THEN Raise("InvalidAddressError", addr)
        ELSE Ok(UrlUnsplitBase(scheme, parts.netloc))

normalize_base_url(addr, default_scheme, allowed_schemes, require_host_only) ==
    IF Blank(addr) THEN Raise("InvalidAddressError", addr)
    ELSE
    LET raw       == Strip(addr)
        candidate == IF Contains(raw, SchemeSep) THEN raw
                     ELSE default_scheme \o SchemeSep \o raw
        parts     == UrlSplit(candidate)
        scheme    == Lower(IF parts.scheme # <<>> THEN parts.scheme ELSE default_scheme)
    IN  IF parts.raised THEN Raise("ValueError", <<>>)
        ELSE IF scheme \notin allowed_schemes THEN Raise("InvalidAddressError", scheme)
        ELSE IF parts.netloc = <<>> THEN Raise("InvalidAddressError", addr)
        ELSE IF /\ require_host_only
                /\ \/ parts.path \notin {<<>>, <<"/">>}
                   \/ parts.query # <<>>
                   \/ parts.fragment # <<>>
             THEN Raise("InvalidAddressError", addr)
        ELSE Ok(UrlUnsplitBase(scheme, parts.netloc))

\* join_url keeping the segments that are empty after stripping
join_url_KeepsEmpty(b, segs) ==
    IF Blank(b) THEN Raise("ValidationError", b)
    ELSE
    LET stripped == RStripChars(b, {"/"})
        cleaned  == [k \in 1..Len(segs) |-> StripChars(segs[k], {"/"})]
    IN  Ok(stripped \o (IF cleaned # <<>> THEN <<"/">> \o Join(<<"/">>, cleaned) ELSE <<>>))

join_url(b, segs) ==
    IF Blank(b) THEN Raise("ValidationError", b)
    ELSE
    LET stripped == RStripChars(b, {"/"})
        kept     == SelectSeq(segs, LAMBDA s : s # <<>> /\ StripChars(s, {"/"}) # <<>>)
        cleaned  == [k \in 1..Len(kept) |-> StripChars(kept[k], {"/"})]
    IN  Ok(stripped \o (IF cleaned # <<>> THEN <<"/">> \o Join(<<"/">>, cleaned) ELSE <<>>))

-----------------------------------------------------------------------------
(* ast.literal_eval, as _compat.py and ontodocker.py call it.               *)
(* The text is tokenised, parsed as a Python expression (eval mode) and     *)
(* the syntax tree converted to a value.  Modelled are string literals in   *)
(* both quote styles (single and triple quoted, implicit concatenation),    *)
(* decimal integers, names, lists, sets, dicts, top-level tuples,           *)
(* subscripts and slices, blanks and comments.  The bodies of the model     *)
(* keep every other character (operators, backslashes, line breaks, string  *)
(* prefixes) inside string literals.                                        *)

QuoteChars == {"'", "\""}

IdentStart == Letters \cup {"_"}

IdentChars == IdentStart \cup Digits

Punct == {"[", "]", "{", "}", ",", ":"}

\* the last position of the maximal run of characters of S that starts at i
RunEnd(s, i, S) ==
    LET K == {k \in i..Len(s) : s[k] \notin S}
    IN  IF K = {} THEN Len(s) ELSE MinOf(K) - 1

Token(t, s) == [t |-> t, s |-> s]

TokenFail == [ok |-> FALSE, toks |-> <<>>]

\* a decimal integer literal: digits only, no leading zero unless all are zero
IsDecimal(run) ==
    /\ \A k \in 1..Len(run) : run[k] \in Digits
    /\ \/ run[1] # "0"
       \/ \A k \in 1..Len(run) : run[k] = "0"

\* the tokens of s from position i on; ok = FALSE is a SyntaxError of the tokenizer
RECURSIVE Tokens(_, _)
Tokens(s, i) ==
    IF i > Len(s) THEN [ok |-> TRUE, toks |-> <<>>]
    ELSE
    LET c == s[i]
        Then(tok, next) ==
            LET r == Tokens(s, next)
            IN  IF r.ok THEN [ok |-> TRUE, toks |-> <<tok>> \o r.toks] ELSE TokenFail
    IN  IF c \in {" ", "\t", "\f"} THEN Tokens(s, i + 1)
        ELSE IF c = "#" THEN [ok |-> TRUE, toks |-> <<>>]
        ELSE IF c \in Punct THEN Then(Token(c, <<>>), i + 1)
        ELSE IF c \in QuoteChars THEN
            IF i + 2 <= Len(s) /\ SubSeq(s, i, i + 2) = <<c, c, c>>
            THEN LET e == Find(s, <<c, c, c>>, i + 3)
                 IN  IF e = 0 THEN TokenFail
                     ELSE Then(Token("STR", SubSeq(s, i + 3, e - 1)), e + 3)
            ELSE LET e == Find(s, <<c>>, i + 1)
                 IN  IF e = 0 THEN TokenFail
                     ELSE Then(Token("STR", SubSeq(s, i + 1, e - 1)), e + 1)
        ELSE IF c \in Digits THEN
            LET e == RunEnd(s, i, IdentChars)
            IN  IF IsDecimal(SubSeq(s, i, e))
                THEN Then(Token("NUM", SubSeq(s, i, e)), e + 1)
                ELSE TokenFail
        ELSE IF c \in IdentStart THEN
            LET e == RunEnd(s, i, IdentChars)
            IN  Then(Token("NAME", SubSeq(s, i, e)), e + 1)
        ELSE TokenFail

\* syntax tree nodes and values share one shape
Node(k, s, elts, vals) == [k |-> k, s |-> s, elts |-> elts, vals |-> vals]

Leaf(k, s) == Node(k, s, <<>>, <<>>)

ParseFail == [ok |-> FALSE, node |-> Leaf("none", <<>>), elts |-> <<>>, vals |-> <<>>, i |-> 0]

Parsed(node, i) == [ok |-> TRUE, node |-> node, elts |-> <<>>, vals |-> <<>>, i |-> i]

ParsedSeq(elts, vals, i) ==
    [ok |-> TRUE, node |-> Leaf("none", <<>>), elts |-> elts, vals |-> vals, i |-> i]

\* the type of token i; "EOF" past the end
TT(toks, i) == IF i <= Len(toks) THEN toks[i].t ELSE "EOF"

S_None  == <<"N","o","n","e">>
S_True  == <<"T","r","u","e">>
S_False == <<"F","a","l","s","e">>

\* adjacent string literals from token i on: (concatenation, next position)
RECURSIVE JoinStrings(_, _)
JoinStrings(toks, i) ==
    IF TT(toks, i) = "STR"
    THEN LET r == JoinStrings(toks, i + 1)
         IN  [s |-> toks[i].s \o r.s, i |-> r.i]
    ELSE [s |-> <<>>, i |-> i]

\* The recursive-descent parser.  Its rules call one another, so they are the
\* branches of one operator: Parse(rule, toks, i, x) applies a rule of the
\* grammar at token i; x is the closing token of "seq" and the node parsed so
\* far of "trailers".
RECURSIVE Parse(_, _, _, _)

\* an atom followed by subscripts
ParseExpr(toks, i) == Parse("expr", toks, i, <<>>)

\* a literal, a name, a list display, a dict or set display
ParseAtom(toks, i) == Parse("atom", toks, i, <<>>)

\* expressions separated by commas, a trailing comma allowed, up to the closing token
ParseSeq(toks, i, close) == Parse("seq", toks, i, close)

\* after "{": the empty dict, a dict display or a set display
ParseBrace(toks, i) == Parse("brace", toks, i, <<>>)

\* key: value pairs up to "}", a trailing comma allowed
ParseDictItems(toks, i) == Parse("dictitems", toks, i, <<>>)

\* one slice: an expression, or [lower] ":" [upper] [":" [step]]
ParseSlice(toks, i) == Parse("slice", toks, i, <<>>)

\* after "[" of a subscript: slices separated by commas up to "]"
ParseSlices(toks, i) == Parse("slices", toks, i, <<>>)

\* the subscripts that follow the node parsed so far
ParseTrailers(toks, i, node) == Parse("trailers", toks, i, node)

Parse(rule, toks, i, x) ==
    IF rule = "expr" THEN
        LET a == ParseAtom(toks, i)
        IN  IF a.ok THEN ParseTrailers(toks, a.i, a.node) ELSE ParseFail
    ELSE IF rule = "atom" THEN
        LET t == TT(toks, i)
        IN  IF t = "STR" THEN
                LET r == JoinStrings(toks, i) IN Parsed(Leaf("str", r.s), r.i)
            ELSE IF t = "NUM" THEN Parsed(Leaf("int", toks[i].s), i + 1)
            ELSE IF t = "NAME" THEN
                Parsed(Leaf(IF toks[i].s \in {S_None, S_True, S_False}
                            THEN "const" ELSE "name", toks[i].s), i + 1)
            ELSE IF t = "[" THEN
                LET r == ParseSeq(toks, i + 1, "]")
                IN  IF r.ok THEN Parsed(Node("list", <<>>, r.elts, <<>>), r.i)
                    ELSE ParseFail
            ELSE IF t = "{" THEN ParseBrace(toks, i + 1)
            ELSE ParseFail
    ELSE IF rule = "seq" THEN
        IF TT(toks, i) = x THEN ParsedSeq(<<>>, <<>>, i + 1)
        ELSE
        LET e == ParseExpr(toks, i)
        IN  IF ~e.ok THEN ParseFail
            ELSE IF TT(toks, e.i) = x THEN ParsedSeq(<<e.node>>, <<>>, e.i + 1)
            ELSE IF TT(toks, e.i) = "," THEN
                LET r == ParseSeq(toks, e.i + 1, x)
                IN  IF r.ok THEN ParsedSeq(<<e.node>> \o r.elts, <<>>, r.i) ELSE ParseFail
            ELSE ParseFail
    ELSE IF rule = "dictitems" THEN
        IF TT(toks, i) = "}" THEN ParsedSeq(<<>>, <<>>, i + 1)
        ELSE
        LET k == ParseExpr(toks, i)
        IN  IF ~k.ok \/ TT(toks, k.i) # ":" THEN ParseFail
            ELSE
            LET v == ParseExpr(toks, k.i + 1)
            IN  IF ~v.ok THEN ParseFail
                ELSE IF TT(toks, v.i) = "}"
                THEN ParsedSeq(<<k.node>>, <<v.node>>, v.i + 1)
                ELSE IF TT(toks, v.i) = "," THEN
                    LET r == ParseDictItems(toks, v.i + 1)
                    IN  IF r.ok
                        THEN ParsedSeq(<<k.node>> \o r.elts, <<v.node>> \o r.vals, r.i)
                        ELSE ParseFail
                ELSE ParseFail
    ELSE IF rule = "brace" THEN
        IF TT(toks, i) = "}" THEN Parsed(Node("dict", <<>>, <<>>, <<>>), i + 1)
        ELSE
        LET k == ParseExpr(toks, i)
        IN  IF ~k.ok THEN ParseFail
            ELSE IF TT(toks, k.i) = ":" THEN
                LET r == ParseDictItems(toks, i)
                IN  IF r.ok THEN Parsed(Node("dict", <<>>, r.elts, r.vals), r.i)
                    ELSE ParseFail
            ELSE
                LET r == ParseSeq(toks, i, "}")
                IN  IF r.ok THEN Parsed(Node("set", <<>>, r.elts, <<>>), r.i)
                    ELSE ParseFail
    ELSE IF rule = "slice" THEN
        LET lower == IF TT(toks, i) = ":" THEN Parsed(Leaf("none", <<>>), i)
                     ELSE ParseExpr(toks, i)
        IN  IF ~lower.ok THEN ParseFail
            ELSE IF TT(toks, lower.i) # ":" THEN lower
            ELSE
            LET j     == lower.i + 1
                upper == IF TT(toks, j) \in {":", ",", "]"}
                         THEN Parsed(Leaf("none", <<>>), j)
                         ELSE ParseExpr(toks, j)
            IN  IF ~upper.ok THEN ParseFail
                ELSE IF TT(toks, upper.i) # ":" THEN upper
                ELSE IF TT(toks, upper.i + 1) \in {",", "]"}
                     THEN Parsed(Leaf("none", <<>>), upper.i + 1)
                     ELSE ParseExpr(toks, upper.i + 1)
    ELSE IF rule = "slices" THEN
        LET s == ParseSlice(toks, i)
        IN  IF ~s.ok THEN ParseFail
            ELSE IF TT(toks, s.i) = "]" THEN Parsed(Leaf("none", <<>>), s.i + 1)
            ELSE IF TT(toks, s.i) = "," THEN
                IF TT(toks, s.i + 1) = "]" THEN Parsed(Leaf("none", <<>>), s.i + 2)
                ELSE ParseSlices(toks, s.i + 1)
            ELSE ParseFail
    ELSE IF rule = "trailers" THEN
        IF TT(toks, i) = "["
        THEN LET s == ParseSlices(toks, i + 1)
             IN  IF s.ok THEN ParseTrailers(toks, s.i, Leaf("subscript", <<>>))
                 ELSE ParseFail
        ELSE Parsed(x, i)
    ELSE \* rule = "eval": one expression, or a tuple of them without parentheses
        LET first == ParseExpr(toks, 1)
        IN  IF ~first.ok THEN ParseFail
            ELSE IF first.i > Len(toks) THEN first
            ELSE IF TT(toks, first.i) = "," THEN
                LET r == ParseSeq(toks, first.i + 1, "EOF")
                IN  IF r.ok
                    THEN Parsed(Node("tuple", <<>>, <<first.node>> \o r.elts, <<>>), r.i)
                    ELSE ParseFail
            ELSE ParseFail

\* ast.parse(source, mode="eval") on the tokens
ParseEval(toks) == Parse("eval", toks, 1, <<>>)

\* list, dict and set values cannot be hashed
Unhashable(v) == v.k \in {"list", "dict", "set"}

Value(k, s, elts) == [st |-> "ok", v |-> Node(k, s, elts, <<>>)]

Failed(kind) == [st |-> kind, v |-> Leaf("none", <<>>)]

\* the first status in a sequence of statuses that is not "ok"
FirstFailure(sts) ==
    LET bad == {j \in 1..Len(sts) : sts[j] # "ok"}
    IN  IF bad = {} THEN "ok" ELSE sts[MinOf(bad)]

\* literal_eval's _convert: the value of a node, or the exception it raises.
\* Elements are converted in order and the first exception wins: an element
\* of a set is hashed as soon as it is converted; dict(zip(map(_convert, keys),
\* map(_convert, values))) converts a key, then its value, then hashes the key.
RECURSIVE Convert(_)
Convert(node) ==
    IF node.k \in {"str", "int", "const"} THEN Value(node.k, node.s, <<>>)
    ELSE IF node.k \in {"list", "tuple", "set"} THEN
        LET cs == [j \in 1..Len(node.elts) |-> Convert(node.elts[j])]
            st == FirstFailure([j \in 1..Len(cs) |->
                      IF cs[j].st # "ok" THEN cs[j].st
                      ELSE IF node.k = "set" /\ Unhashable(cs[j].v) THEN "TypeError"
                      ELSE "ok"])
        IN  IF st = "ok" THEN Value(node.k, <<>>, [j \in 1..Len(cs) |-> cs[j].v])
            ELSE Failed(st)
    ELSE IF node.k = "dict" THEN
        LET ks == [j \in 1..Len(node.elts) |-> Convert(node.elts[j])]
            vs == [j \in 1..Len(node.vals) |-> Convert(node.vals[j])]
            st == FirstFailure([j \in 1..Len(ks) |->
                      IF ks[j].st # "ok" THEN ks[j].st
                      ELSE IF vs[j].st # "ok" THEN vs[j].st
                      ELSE IF Unhashable(ks[j].v) THEN "TypeError"
                      ELSE "ok"])
        IN  IF st = "ok" THEN Value("dict", <<>>, <<>>) ELSE Failed(st)
    ELSE Failed("ValueError")

\* the value of a parsed expression; a text that does not parse is a SyntaxError
ConvertParsed(p) == IF ~p.ok THEN Failed("SyntaxError") ELSE Convert(p.node)

\* the value of a token sequence; a text that cannot be tokenised is a SyntaxError
EvalTokens(toks) ==
    IF ~toks.ok THEN Failed("SyntaxError") ELSE ConvertParsed(ParseEval(toks.toks))

\* ast.literal_eval(text): [st, v] with st "ok", "SyntaxError", "ValueError" or "TypeError"
literal_eval(src) == EvalTokens(Tokens(LStripChars(src, {" ", "\t"}), 1))

-----------------------------------------------------------------------------
(* String literals of the source *)

S_https == <<"h","t","t","p","s">>
S_http  == <<"h","t","t","p">>
S_api   == <<"a","p","i">>
S_v1    == <<"v","1">>
S_jena  == <<"j","e","n","a">>
S_sparql    == <<"s","p","a","r","q","l">>
S_endpoints == <<"e","n","d","p","o","i","n","t","s">>
S_http_colon    == S_http \o <<":">>
S_https_colon   == S_https \o <<":">>
S_api_jena      == <<"/">> \o S_api \o <<"/">> \o S_jena
S_None_api_jena == <<":">> \o S_None \o S_api_jena
S_443_api_jena  == <<":","4","4","3">> \o S_api_jena
S_api_v1_jena   == <<"/">> \o S_api \o <<"/">> \o S_v1 \o <<"/">> \o S_jena

-----------------------------------------------------------------------------
(* services/ontodocker/_compat.py *)

\* rectify_endpoints with the port placeholders rewritten before the scheme
rectify_endpoints_PortsFirst(result) ==
    LET r1 == Replace(result, S_None_api_jena, S_api_v1_jena)
        r2 == Replace(r1, S_443_api_jena, S_api_v1_jena)
    IN  Replace(r2, S_http_colon, S_https_colon)

\* the variant without the third replacement
rectify_endpoints_TwoOnly(result) ==
    LET r1 == Replace(result, S_http_colon, S_https_colon)
    IN  Replace(r1, S_None_api_jena, S_api_v1_jena)

rectify_endpoints(result) ==
    LET r1 == Replace(result, S_http_colon, S_https_colon)
        r2 == Replace(r1, S_None_api_jena, S_api_v1_jena)
    IN  Replace(r2, S_443_api_jena, S_api_v1_jena)

\* isinstance(value, list) and all(isinstance(x, str) for x in value)
IsListOfStr(v) == v.k = "list" /\ \A j \in 1..Len(v.elts) : v.elts[j].k = "str"

\* the Python list[str] as a sequence of strings
Strings(v) == [j \in 1..Len(v.elts) |-> v.elts[j].s]

\* What parse_endpoints_response makes of the outcome of literal_eval: the
\* except clause catches SyntaxError and ValueError (and MemoryError, which the
\* model leaves out); any other exception of literal_eval propagates.
CheckedValue(value) ==
    IF value.st \in {"SyntaxError", "ValueError"} THEN Raise("ValueError", <<>>)
    ELSE IF value.st # "ok" THEN Raise(value.st, <<>>)
    ELSE IF ~IsListOfStr(value.v) THEN Raise("ValueError", <<>>)
    ELSE Ok(Strings(value.v))

parse_endpoints_response(t, rect) ==
    CheckedValue(literal_eval(IF rect THEN rectify_endpoints(t) ELSE t))

\* segments = [s for s in parts.path.rstrip("/").split("/") if s]
PathSegments(parts) ==
    SelectSeq(Split(RStripChars(parts.path, {"/"}), "/"), LAMBDA s : s # <<>>)

Prefix3(segs) == SubSeq(segs, 1, 3)

\* the name taken from the last path segment
NameFromSegments_Last(endpoint, segs) ==
    IF Len(segs) >= 4 /\ Prefix3(segs) = <<S_api, S_v1, S_jena>>
    THEN Ok(segs[Len(segs)])
    ELSE Raise("ValueError", endpoint)

\* the condition of the loop body: the name, or the ValueError naming the endpoint
NameFromSegments(endpoint, segs) ==
    IF \/ /\ Len(segs) >= 5
          /\ Prefix3(segs) = <<S_api, S_v1, S_jena>>
          /\ segs[Len(segs)] = S_sparql
       \/ /\ Len(segs) >= 4
          /\ Prefix3(segs) = <<S_api, S_v1, S_jena>>
    THEN Ok(segs[4])
    ELSE Raise("ValueError", endpoint)

\* the loop body on the result of urlsplit, whose own ValueError leaves the
\* function as it is raised
NameOfSplit(endpoint, parts) ==
    IF parts.raised THEN Raise("ValueError", <<>>)
    ELSE NameFromSegments(endpoint, PathSegments(parts))

\* one iteration of the for loop
EndpointName(endpoint) == NameOfSplit(endpoint, UrlSplit(endpoint))

\* an iteration that ignores the endpoint it cannot name
Collect_Skips(one, rest) ==
    IF ~one.ok THEN rest
    ELSE IF ~rest.ok THEN rest
    ELSE Ok(<<one.val>> \o rest.val)

\* an iteration followed by the rest of the loop: the first exception ends
\* the call, otherwise the name is appended
Collect(one, rest) ==
    IF ~one.ok THEN one
    ELSE IF ~rest.ok THEN rest
    ELSE Ok(<<one.val>> \o rest.val)

\* the iterations of the for loop from endpoint i on
RECURSIVE ExtractLoop(_, _)
ExtractLoop(eps, i) ==
    IF i > Len(eps) THEN Ok(<<>>)
    ELSE Collect(EndpointName(eps[i]), ExtractLoop(eps, i + 1))

extract_dataset_names(eps) == ExtractLoop(eps, 1)

-----------------------------------------------------------------------------
(* ontodocker.py: the legacy module-level functions *)

legacy_rectify_endpoints(result) ==
    LET r1 == Replace(result, S_http_colon, S_https_colon)
        r2 == Replace(r1, S_None_api_jena, S_api_v1_jena)
    IN  Replace(r2, S_443_api_jena, S_api_v1_jena)

\* the if / elif / else of the legacy loop body
LegacyNameFromSegments(endpoint, segs) ==
    IF /\ Len(segs) >= 5
       /\ Prefix3(segs) = <<S_api, S_v1, S_jena>>
       /\ segs[Len(segs)] = S_sparql
    THEN Ok(segs[4])
    ELSE IF Len(segs) >= 4 /\ Prefix3(segs) = <<S_api, S_v1, S_jena>>
    THEN Ok(segs[4])
    ELSE Raise("ValueError", endpoint)

LegacyNameOfSplit(endpoint, parts) ==
    IF parts.raised THEN Raise("ValueError", <<>>)
    ELSE LegacyNameFromSegments(endpoint, PathSegments(parts))

LegacyEndpointName(endpoint) == LegacyNameOfSplit(endpoint, UrlSplit(endpoint))

RECURSIVE LegacyExtractLoop(_, _)
LegacyExtractLoop(eps, i) ==
    IF i > Len(eps) THEN Ok(<<>>)
    ELSE Collect(LegacyEndpointName(eps[i]), LegacyExtractLoop(eps, i + 1))

legacy_extract_dataset_names(eps) == LegacyExtractLoop(eps, 1)

-----------------------------------------------------------------------------
(* The HTTP exchange: requests, http/request.py, base_client.py *)

\* the server's answers: 0 stands for a request without a response (connection
\* refused, timeout, TLS failure); the others are HTTP status codes
Statuses == {0, 200, 404, 500}

\* requests.Response.raise_for_status raises HTTPError for these
IsHttpError(status) == 400 <= status /\ status < 600

\* a byte of the body that is no valid UTF-8, and the character resp.text puts for it
BadByte == "0xFF"
ReplacementChar == "U+FFFD"

\* resp.text: requests decodes with errors="replace"
ResponseText(body) ==
    [j \in 1..Len(body) |-> IF body[j] = BadByte THEN ReplacementChar ELSE body[j]]

\* exceptions.py, HttpError: the fields the exception carries
HttpError(method, url, status_code, message, response_text) ==
    [method |-> method, url |-> url, status_code |-> status_code,
     message |-> message, response_text |-> response_text]

\* str(e) of the HTTPError of raise_for_status: it names the status and the URL
StatusMessage(status, url) == [status |-> status, url |-> url]

\* the variant that lets every status through
raise_for_status_with_body_Silent(method, url, status, body) == Ok(NoVal)

\* http/request.py, raise_for_status_with_body: returns None or raises HttpError
raise_for_status_with_body(method, url, status, body) ==
    IF IsHttpError(status)
    THEN Raise("HttpError", HttpError(method, url, status, StatusMessage(status, url),
                                      PyVal(ResponseText(body))))
    ELSE Ok(NoVal)

\* http/request.py, read_text
read_text(method, url, status, body) ==
    IF ~raise_for_status_with_body(method, url, status, body).ok
    THEN raise_for_status_with_body(method, url, status, body)
    ELSE Ok(ResponseText(body))

\* BaseClient._request, then read_text: session.request raises when no response comes
send_text(method, url, status, body) ==
    IF status = 0 THEN Raise("RequestException", url)
    ELSE read_text(method, url, status, body)

\* BaseClient._get_text
get_text(url, status, body) == send_text("GET", url, status, body)

-----------------------------------------------------------------------------
(* services/ontodocker/endpoints.py *)

\* list_raw once the text is fetched
ParseFetched(t, rectify_legacy) ==
    IF ~t.ok THEN t ELSE parse_endpoints_response(t.val, rectify_legacy)

\* list_raw once the URL is joined
FetchFrom(url, rectify_legacy, status, body) ==
    IF ~url.ok THEN url
    ELSE ParseFetched(get_text(url.val, status, body), rectify_legacy)

list_raw(base_url, rectify_legacy, status, body) ==
    FetchFrom(join_url(base_url, <<S_api, S_v1, S_endpoints>>), rectify_legacy, status, body)

EndpointInfo(ds, ep) == [dataset |-> ds, sparql_endpoint |-> ep]

\* the variant that pairs every name with the first URL
ZipInfos_FirstEndpoint(dataset_names, eps) ==
    IF ~dataset_names.ok THEN dataset_names
    ELSE Ok([j \in 1..(IF Len(dataset_names.val) < Len(eps) THEN Len(dataset_names.val)
                       ELSE Len(eps)) |-> EndpointInfo(dataset_names.val[j], eps[1])])

\* zip(dataset_names, endpoints, strict=False) stops at the shorter list
ZipInfos(dataset_names, eps) ==
    IF ~dataset_names.ok THEN dataset_names
    ELSE Ok([j \in 1..(IF Len(dataset_names.val) < Len(eps) THEN Len(dataset_names.val)
                       ELSE Len(eps)) |-> EndpointInfo(dataset_names.val[j], eps[j])])

\* list once list_raw has returned or raised
InfosOf(eps) ==
    IF ~eps.ok THEN eps ELSE ZipInfos(extract_dataset_names(eps.val), eps.val)

\* EndpointsResource.list
list(base_url, rectify_legacy, status, body) ==
    InfosOf(list_raw(base_url, rectify_legacy, status, body))

-----------------------------------------------------------------------------
(* sorted() on str: comparison by code point, character by character *)

\* the printable ASCII characters in code-point order, from U+0020 on (the grave
\* accent, which no text of the model holds, by its code point)
Ascii ==
    << " ", "!", "\"", "#", "$", "%", "&", "'", "(", ")", "*", "+", ",", "-", ".", "/",
       "0", "1", "2", "3", "4", "5", "6", "7", "8", "9", ":", ";", "<", "=", ">", "?",
       "@", "A", "B", "C", "D", "E", "F", "G", "H", "I", "J", "K", "L", "M", "N", "O",
       "P", "Q", "R", "S", "T", "U", "V", "W", "X", "Y", "Z", "[", "\\", "]", "^", "_",
       "U+0060", "a", "b", "c", "d", "e", "f", "g", "h", "i", "j", "k", "l", "m", "n", "o",
       "p", "q", "r", "s", "t", "u", "v", "w", "x", "y", "z", "{", "|", "}", "~" >>

\* ord(c) for the characters of the model
CodePoint(c) ==
    IF c = ReplacementChar THEN 65533
    ELSE IF c = "\t" THEN 9
    ELSE IF c = "\n" THEN 10
    ELSE IF c = "\f" THEN 12
    ELSE IF c = "\r" THEN 13
    ELSE 31 + (CHOOSE k \in 1..Len(Ascii) : Ascii[k] = c)

\* a < b for two str
RECURSIVE StrLess(_, _)
StrLess(a, b) ==
    IF b = <<>> THEN FALSE
    ELSE IF a = <<>> THEN TRUE
    ELSE IF a[1] = b[1] THEN StrLess(Tail(a), Tail(b))
    ELSE CodePoint(a[1]) < CodePoint(b[1])

\* sorted(S) for a set of str: the least element first
RECURSIVE sorted(_)
sorted(S) ==
    IF S = {} THEN <<>>
    ELSE LET least == CHOOSE x \in S : \A y \in S \ {x} : StrLess(x, y)
         IN  <<least>> \o sorted(S \ {least})

-----------------------------------------------------------------------------
(* services/ontodocker/datasets.py: list *)

\* the variant that keeps the order and the repetitions of the endpoint listing
SortedNames_AsListed(infos) ==
    IF ~infos.ok THEN infos
    ELSE Ok([j \in 1..Len(infos.val) |-> infos.val[j].dataset])

\* sorted({e.dataset for e in infos})
SortedNames(infos) ==
    IF ~infos.ok THEN infos
    ELSE Ok(sorted({infos.val[j].dataset : j \in 1..Len(infos.val)}))

\* DatasetsResource.list
datasets_list(base_url, rectify_legacy, status, body) ==
    SortedNames(list(base_url, rectify_legacy, status, body))

-----------------------------------------------------------------------------
(* ontodocker.py: get_all_dataset_sparql_endpoints *)

\* what the legacy function makes of the outcome of literal_eval
LegacyCheckedValue(value) ==
    IF value.st \in {"SyntaxError", "ValueError"} THEN Raise("RuntimeError", <<>>)
    ELSE IF value.st # "ok" THEN Raise(value.st, <<>>)
    ELSE IF ~IsListOfStr(value.v) THEN Raise("TypeError", <<>>)
    ELSE Ok(Strings(value.v))

LegacyEndpointsUrl(addr, scheme) ==
    scheme \o SchemeSep \o addr \o <<"/">> \o S_api \o <<"/">> \o S_v1 \o <<"/">> \o S_endpoints

get_all_dataset_sparql_endpoints(addr, scheme, rect, status, body) ==
    IF Blank(addr) THEN Raise("ValueError", addr)
    ELSE IF Contains(addr, SchemeSep) THEN Raise("ValueError", addr)
    ELSE IF status = 0 \/ IsHttpError(status)
    THEN Raise("RuntimeError", LegacyEndpointsUrl(addr, scheme))
    ELSE IF HasChar(body, BadByte)
    THEN Raise("RuntimeError", LegacyEndpointsUrl(addr, scheme))
    ELSE LegacyCheckedValue(literal_eval(IF rect THEN legacy_rectify_endpoints(body)
                                         ELSE body))

-----------------------------------------------------------------------------
(* Inputs of the address normaliser and of join_url *)

S_ftp   == <<"f","t","p">>
S_HTTPS == <<"H","T","T","P","S">>
S_example_org == <<"e","x","a","m","p","l","e",".","o","r","g">>
S_port  == <<":","8","0","8","0">>
S_foo   == <<"f","o","o">>
S_base  == S_https \o SchemeSep \o <<"h">>

\* the keyword defaults of normalize_base_url
DefaultOpts ==
    [default_scheme |-> S_https, allowed_schemes |-> {S_http, S_https},
     require_host_only |-> TRUE]

Options ==
    { DefaultOpts,
      [DefaultOpts EXCEPT !.require_host_only = FALSE],
      [DefaultOpts EXCEPT !.default_scheme = S_ftp],
      [default_scheme |-> S_http, allowed_schemes |-> {S_http},
       require_host_only |-> TRUE] }

\* the addresses the documentation and the tests of the normaliser name
AddrExamples ==
    { <<>>,
      S_example_org,
      S_https \o SchemeSep \o S_example_org,
      S_example_org \o S_port,
      S_example_org \o S_port \o <<"/">>,
      S_example_org \o S_port \o <<"/">> \o S_foo,
      S_ftp \o SchemeSep \o S_example_org }

AddrFrags ==
    { S_HTTPS, SchemeSep, <<"h">>, <<":", "8">>, <<"/">>, <<"?">>, <<"#">>,
      <<" ">>, <<"[">> }

\* every concatenation of at most n fragments
RECURSIVE Concats(_, _)
Concats(frags, n) ==
    IF n = 0 THEN {<<>>}
    ELSE LET P == Concats(frags, n - 1)
         IN  P \cup {p \o f : p \in P, f \in frags}

MaxAddrParts == 3

Addresses == AddrExamples \cup Concats(AddrFrags, MaxAddrParts)

Bases == { <<>>, <<" ">>, <<"/">>, S_base, S_base \o <<"/">>, S_base \o <<"/", "/">>,
           S_base \o <<"/">> \o S_api }

SegmentChoices ==
    { <<>>, <<"/">>, S_api, S_v1, S_jena, <<"/">> \o S_v1 \o <<"/", "/">>,
      S_jena \o <<"/", "/">> \o S_foo, <<" ">> }

MaxSegments == 3

\* every sequence of at most n elements of S
RECURSIVE SeqsUpTo(_, _)
SeqsUpTo(S, n) ==
    IF n = 0 THEN {<<>>}
    ELSE LET P == SeqsUpTo(S, n - 1)
         IN  P \cup {Append(p, x) : p \in P, x \in S}

-----------------------------------------------------------------------------
(* The address normaliser as a state machine *)

InitNormalize ==
    /\ address \in Addresses
    /\ opts \in Options
    /\ fed = FALSE
    /\ base = <<>>
    /\ segments = <<>>
    /\ text = <<>>
    /\ rectify = TRUE
    /\ endpoints = <<>>
    /\ server = 200
    /\ Quiet
    /\ call = "none"
    /\ ret = Idle

\* a call normalize_base_url(address, **opts)
NormalizeBaseUrl ==
    /\ call' = "normalize_base_url"
    /\ ret' = normalize_base_url(address, opts.default_scheme, opts.allowed_schemes,
                                 opts.require_host_only)
    /\ UNCHANGED <<address, opts, fed, base, segments, text, rectify, endpoints, server, args, wire, sessions, clients>>

\* the caller passes the returned base URL back in as the next address
FeedBack ==
    /\ call = "normalize_base_url"
    /\ ret.ok
    /\ ~fed
    /\ address' = ret.val
    /\ fed' = TRUE
    /\ call' = "none"
    /\ ret' = Idle
    /\ UNCHANGED <<opts, base, segments, text, rectify, endpoints, server, args, wire, sessions, clients>>

NextNormalize == NormalizeBaseUrl \/ FeedBack

SpecNormalize == InitNormalize /\ [][NextNormalize]_vars

-----------------------------------------------------------------------------
(* join_url as a state machine *)

InitJoin ==
    /\ base \in Bases
    /\ segments \in SeqsUpTo(SegmentChoices, MaxSegments)
    /\ address = <<>>
    /\ opts = DefaultOpts
    /\ fed = FALSE
    /\ text = <<>>
    /\ rectify = TRUE
    /\ endpoints = <<>>
    /\ server = 200
    /\ Quiet
    /\ call = "none"
    /\ ret = Idle

\* a call join_url(base, segments=segments)
JoinUrl ==
    /\ call = "none"
    /\ call' = "join_url"
    /\ ret' = join_url(base, segments)
    /\ UNCHANGED <<address, opts, fed, base, segments, text, rectify, endpoints, server, args, wire, sessions, clients>>

NextJoin == JoinUrl

SpecJoin == InitJoin /\ [][NextJoin]_vars

-----------------------------------------------------------------------------
(* Inputs of the endpoint parser *)

\* repr() of a Python list of strings that hold no quote and no backslash
RECURSIVE PyListItems(_)
PyListItems(urls) ==
    IF urls = <<>> THEN <<>>
    ELSE <<"'">> \o urls[1] \o <<"'">>
         \o (IF Len(urls) > 1 THEN <<",", " ">> \o PyListItems(Tail(urls)) ELSE <<>>)

PyList(urls) == <<"[">> \o PyListItems(urls) \o <<"]">>

\* the rectification example of the documentation
S_example_legacy    == <<"h","t","t","p",":","/","/","x",":","N","o","n","e","/","a","p","i","/","j","e","n","a","/","d","s","/","s","p","a","r","q","l">>
S_example_rectified == <<"h","t","t","p","s",":","/","/","x","/","a","p","i","/","v","1","/","j","e","n","a","/","d","s","/","s","p","a","r","q","l">>

\* pieces of legacy endpoint URLs; they overlap the patterns rectify_endpoints rewrites
RectFrags ==
    { <<"h","t","t","p">>, <<"h","t","t","p",":">>, <<"h","t","t","p","s",":">>,
      <<"/","/","x">>, <<":","N","o","n","e","/","a","p","i","/","j","e","n","a">>,
      <<":","4","4","3","/","a","p","i","/","j","e","n","a">>, <<":","N","o","n","e">>,
      <<"/","a","p","i","/","j","e","n","a">>, <<"/","d">> }

MaxRectParts == 3

\* pieces of Python literals
LitFrags ==
    { <<"[">>, <<"]">>, <<"{">>, <<"}">>, <<",">>, <<":">>, <<"'","a","'">>, <<"1">>,
      <<" ">> }

MaxLitParts == 3

\* texts a server may answer with that are no repr() of a list of URLs
OtherBodies ==
    { <<>>, <<"[","'","a">>, <<"[","a","]">>, <<"'","a","'">>, <<"{","[","]","}">>,
      <<"[","1","]">>, <<"N","o","n","e">>, <<"{","'","a","'",":"," ","1","}">>,
      <<"[","'","a","'"," ","'","b","'","]">>, <<"[","\"","a","\"","]">>,
      <<"[","[","'","a","'","]","]">>, <<"[","'","'","'","a","'","'","'","]">>,
      <<" ","[","'","a","'","]">>, <<"[","'","a","'",","," ","1","]">>,
      <<"[","'","a","'","]","[","0","]">>, <<"<","h","t","m","l",">">> }

\* a body whose bytes are no valid UTF-8
S_undecodable == <<"[", "'", BadByte, "'", "]">>

ServerBodies == OtherBodies \cup {S_undecodable}

ParseTexts ==
    {PyList(<<t>>) : t \in Concats(RectFrags, MaxRectParts) \cup {S_example_legacy}}
        \cup Concats(LitFrags, MaxLitParts) \cup OtherBodies

-----------------------------------------------------------------------------
(* The endpoint parser as a state machine *)

InitParse ==
    /\ text \in ParseTexts
    /\ rectify \in BOOLEAN
    /\ address = <<>>
    /\ opts = DefaultOpts
    /\ fed = FALSE
    /\ base = <<>>
    /\ segments = <<>>
    /\ endpoints = <<>>
    /\ server = 200
    /\ Quiet
    /\ call = "none"
    /\ ret = Idle

\* a call rectify_endpoints(text)
RectifyEndpoints ==
    /\ call = "none"
    /\ call' = "rectify_endpoints"
    /\ ret' = Ok(rectify_endpoints(text))
    /\ UNCHANGED <<address, opts, fed, base, segments, text, rectify, endpoints, server, args, wire, sessions, clients>>

\* a call parse_endpoints_response(text, rectify=rectify)
ParseEndpointsResponse ==
    /\ call = "none"
    /\ call' = "parse_endpoints_response"
    /\ ret' = parse_endpoints_response(text, rectify)
    /\ UNCHANGED <<address, opts, fed, base, segments, text, rectify, endpoints, server, args, wire, sessions, clients>>

NextParse == RectifyEndpoints \/ ParseEndpointsResponse

SpecParse == InitParse /\ [][NextParse]_vars

-----------------------------------------------------------------------------
(* Inputs of the dataset-name extractor and of the endpoint listing *)

Origins == { <<>>, S_base }

PathFrags ==
    { <<"/","a","p","i","/","v","1","/","j","e","n","a">>,
      <<"/","a","p","i","/","j","e","n","a">>, <<"/","d">>,
      <<"/","s","p","a","r","q","l">>, <<"/">>, <<"?","q">> }

MaxPathParts == 3

EndpointUrls == {o \o p : o \in Origins, p \in Concats(PathFrags, MaxPathParts)}

U_sparql  == <<"h","t","t","p","s",":","/","/","h","/","a","p","i","/","v","1","/","j","e","n","a","/","d","/","s","p","a","r","q","l">>
U_plain   == <<"h","t","t","p","s",":","/","/","h","/","a","p","i","/","v","1","/","j","e","n","a","/","e">>
U_legacy  == <<"h","t","t","p",":","/","/","h",":","N","o","n","e","/","a","p","i","/","j","e","n","a","/","d","/","s","p","a","r","q","l">>
U_version == <<"h","t","t","p","s",":","/","/","h","/","a","p","i","/","v","2","/","j","e","n","a","/","d">>
U_short   == <<"h","t","t","p","s",":","/","/","h","/","a","p","i","/","v","1","/","j","e","n","a">>
U_bracket == <<"h","t","t","p","s",":","/","/","[","h","/","a","p","i","/","v","1","/","j","e","n","a","/","d">>
U_blank   == <<"h","t","t","p","s",":","/","/","h","/","a","p","i","/","v","1","/","j","e","n","a","/"," ","/","s","p","a","r","q","l">>

CuratedUrls == {U_sparql, U_plain, U_legacy, U_version, U_short, U_bracket, U_blank}

MaxEndpoints == 2

EndpointLists == {<<u>> : u \in EndpointUrls} \cup SeqsUpTo(CuratedUrls, MaxEndpoints)

\* the address argument of the legacy function: a host, nothing, a URL
LegacyAddresses == { <<"h">>, <<>>, S_base }

-----------------------------------------------------------------------------
(* Dataset-name extraction and endpoint listing as a state machine.        *)
(* endpoints is the list the server holds, text the body it answers, and   *)
(* server its status: a server that lists endpoints, one that fails, one   *)
(* that answers something else.                                            *)

InitEndpoints ==
    /\ \/ /\ endpoints \in EndpointLists
          /\ text = PyList(endpoints)
          /\ server = 200
          /\ address = <<"h">>
       \/ /\ endpoints \in {<<>>, <<U_sparql>>}
          /\ text = PyList(endpoints)
          /\ server \in Statuses
          /\ address \in LegacyAddresses
       \/ /\ endpoints = <<>>
          /\ text \in ServerBodies
          /\ server = 200
          /\ address = <<"h">>
    /\ rectify \in BOOLEAN
    /\ base = S_base
    /\ opts = DefaultOpts
    /\ fed = FALSE
    /\ segments = <<>>
    /\ Quiet
    /\ call = "none"
    /\ ret = Idle

\* a call extract_dataset_names(endpoints) of _compat.py
ExtractDatasetNames ==
    /\ call = "none"
    /\ call' = "extract_dataset_names"
    /\ ret' = extract_dataset_names(endpoints)
    /\ UNCHANGED <<address, opts, fed, base, segments, text, rectify, endpoints, server, args, wire, sessions, clients>>

\* a call extract_dataset_names(endpoints) of ontodocker.py
LegacyExtractDatasetNames ==
    /\ call = "none"
    /\ call' = "legacy_extract_dataset_names"
    /\ ret' = legacy_extract_dataset_names(endpoints)
    /\ UNCHANGED <<address, opts, fed, base, segments, text, rectify, endpoints, server, args, wire, sessions, clients>>

\* EndpointsResource(client, rectify_legacy=rectify).list_raw()
EndpointsListRaw ==
    /\ call = "none"
    /\ call' = "list_raw"
    /\ ret' = list_raw(base, rectify, server, text)
    /\ UNCHANGED <<address, opts, fed, base, segments, text, rectify, endpoints, server, args, wire, sessions, clients>>

\* EndpointsResource(client, rectify_legacy=rectify).list()
EndpointsList ==
    /\ call = "none"
    /\ call' = "list"
    /\ ret' = list(base, rectify, server, text)
    /\ UNCHANGED <<address, opts, fed, base, segments, text, rectify, endpoints, server, args, wire, sessions, clients>>

\* get_all_dataset_sparql_endpoints(address, rectify=rectify) of ontodocker.py
GetAllDatasetSparqlEndpoints ==
    /\ call = "none"
    /\ call' = "get_all_dataset_sparql_endpoints"
    /\ ret' = get_all_dataset_sparql_endpoints(address, S_https, rectify, server, text)
    /\ UNCHANGED <<address, opts, fed, base, segments, text, rectify, endpoints, server, args, wire, sessions, clients>>

\* DatasetsResource.list() of a client whose endpoints resource has rectify_legacy=rectify
DatasetsList ==
    /\ call = "none"
    /\ call' = "datasets_list"
    /\ ret' = datasets_list(base, rectify, server, text)
    /\ UNCHANGED <<address, opts, fed, base, segments, text, rectify, endpoints, server, args, wire, sessions, clients>>

NextEndpoints ==
    \/ DatasetsList
    \/ ExtractDatasetNames
    \/ LegacyExtractDatasetNames
    \/ EndpointsListRaw
    \/ EndpointsList
    \/ GetAllDatasetSparqlEndpoints

SpecEndpoints == InitEndpoints /\ [][NextEndpoints]_vars

-----------------------------------------------------------------------------
(* http/auth.py and base_client.py.  Of a session's headers the model     *)
(* keeps the Authorization entry: PyNone when the header is not set.      *)

S_Bearer == <<"B","e","a","r","e","r"," ">>

\* the Authorization entry of the dict bearer_headers returns (PyNone: the dict is empty)
bearer_headers(token) ==
    IF Truthy(token) /\ Strip(token.s) # <<>> THEN PyVal(S_Bearer \o Strip(token.s))
    ELSE PyNone

\* session.headers.update(new): an empty dict changes nothing
HeadersUpdate(old, new) == IF new.none THEN old ELSE new

\* requests.Session(): the default headers carry no Authorization
create_session == PyNone

\* the client object: its token, the session it holds, its base URL
Client(token, sid, base_url) == [token |-> token, session |-> sid, base_url |-> base_url]

\* what a call did outside the process
Request(method, url, auth) ==
    [io |-> "request", method |-> method, url |-> url, authorization |-> auth, path |-> <<>>]

FileOpen(path) ==
    [io |-> "open", method |-> "", url |-> <<>>, authorization |-> PyNone, path |-> path]

\* an open() that raised: no handle exists
FileOpenFailed(path) ==
    [io |-> "open-failed", method |-> "", url |-> <<>>, authorization |-> PyNone, path |-> path]

\* the handle of path is closed
FileClose(path) ==
    [io |-> "close", method |-> "", url |-> <<>>, authorization |-> PyNone, path |-> path]

\* the outcome of an operation together with what it did outside the process
Effect(out, io) == [out |-> out, io |-> io]

\* the variant that sends a failed request a second time
request_text_Retries(method, url, auth, status, body) ==
    IF ~url.ok THEN Effect(url, <<>>)
    ELSE IF send_text(method, url.val, status, body).ok
    THEN Effect(send_text(method, url.val, status, body), <<Request(method, url.val, auth)>>)
    ELSE Effect(send_text(method, url.val, status, body),
                <<Request(method, url.val, auth), Request(method, url.val, auth)>>)

\* BaseClient._request and read_text: the request carries the session's headers
request_text(method, url, auth, status, body) ==
    IF ~url.ok THEN Effect(url, <<>>)
    ELSE Effect(send_text(method, url.val, status, body), <<Request(method, url.val, auth)>>)

-----------------------------------------------------------------------------
(* services/ontodocker/datasets.py: create, delete, download_turtle,      *)
(* upload_turtlefile.  auth is the Authorization header of the client's   *)
(* session, status and body the server's answer.                          *)

\* join_url(self.client.base_url, segments=["api", "v1", "jena", name.strip()])
dataset_url(base_url, name) == join_url(base_url, <<S_api, S_v1, S_jena, Strip(name)>>)

create(base_url, name, auth, status, body) ==
    IF Blank(name) THEN Effect(Raise("ValidationError", name), <<>>)
    ELSE request_text("PUT", dataset_url(base_url, name), auth, status, body)

delete(base_url, name, auth, status, body) ==
    IF Blank(name) THEN Effect(Raise("ValidationError", name), <<>>)
    ELSE request_text("DELETE", dataset_url(base_url, name), auth, status, body)

download_turtle(base_url, name, auth, status, body) ==
    IF Blank(name) THEN Effect(Raise("ValidationError", name), <<>>)
    ELSE request_text("GET", dataset_url(base_url, name), auth, status, body)

\* "with open(turtlefile, 'rb') as f: return self.client._post_text(url, files=...)"
PostFile(url, turtlefile, readable, auth, status, body) ==
    IF ~url.ok THEN Effect(url, <<>>)
    ELSE IF ~readable
    THEN Effect(Raise("FileNotFoundError", turtlefile), <<FileOpenFailed(turtlefile)>>)
    ELSE Effect(send_text("POST", url.val, status, body),
                <<FileOpen(turtlefile), Request("POST", url.val, auth), FileClose(turtlefile)>>)

\* the variant that opens the file before it looks at the path
upload_turtlefile_OpensFirst(base_url, name, turtlefile, readable, auth, status, body) ==
    IF Blank(name) THEN Effect(Raise("ValidationError", name), <<>>)
    ELSE IF Blank(turtlefile) THEN Effect(Raise("ValidationError", turtlefile), <<FileOpen(turtlefile)>>)
    ELSE PostFile(dataset_url(base_url, name), turtlefile, readable, auth, status, body)

\* readable: whether open(turtlefile, "rb") succeeds
upload_turtlefile(base_url, name, turtlefile, readable, auth, status, body) ==
    IF Blank(name) THEN Effect(Raise("ValidationError", name), <<>>)
    ELSE IF Blank(turtlefile) THEN Effect(Raise("ValidationError", turtlefile), <<>>)
    ELSE PostFile(dataset_url(base_url, name), turtlefile, readable, auth, status, body)

-----------------------------------------------------------------------------
(* services/ontodocker/sparql.py: endpoint *)

sparql_endpoint(base_url, dataset) ==
    IF Blank(dataset) THEN Raise("ValidationError", dataset)
    ELSE join_url(base_url, <<S_api, S_v1, S_jena, Strip(dataset), S_sparql>>)

-----------------------------------------------------------------------------
(* A SPARQL JSON result, as queryAndConvert returns it.  The dict is       *)
(* modelled by its parts: has_results and has_bindings tell whether the    *)
(* keys "results" and "bindings" are there, bindings is the list under     *)
(* them; a binding is the sequence of its entries in key order, an entry   *)
(* the variable, whether its dict has the key "value", and that value.     *)

Entry(var, value) == [var |-> var, has_value |-> TRUE, value |-> value]

EntryWithoutValue(var) == [var |-> var, has_value |-> FALSE, value |-> <<>>]

SparqlResult(bindings) == [has_results |-> TRUE, has_bindings |-> TRUE, bindings |-> bindings]

ResultWithoutResults == [has_results |-> FALSE, has_bindings |-> FALSE, bindings |-> <<>>]

ResultWithoutBindings == [has_results |-> TRUE, has_bindings |-> FALSE, bindings |-> <<>>]

S_results == <<"r","e","s","u","l","t","s">>
S_bindings == <<"b","i","n","d","i","n","g","s">>
S_value == <<"v","a","l","u","e">>

\* result["results"]["bindings"]
Bindings(result) ==
    IF ~result.has_results THEN Raise("KeyError", S_results)
    ELSE IF ~result.has_bindings THEN Raise("KeyError", S_bindings)
    ELSE Ok(result.bindings)

-----------------------------------------------------------------------------
(* pandas.DataFrame(rows, columns=columns) for a list of lists: the data   *)
(* is as wide as the widest row, shorter rows are filled up with None, and *)
(* a number of columns other than that width is a ValueError; no rows give *)
(* an empty table with the columns asked for.                              *)

MaxOf(S) == CHOOSE x \in S : \A y \in S : y <= x

Width(rows) == MaxOf({Len(rows[k]) : k \in 1..Len(rows)})

\* a row filled up to width w
Filled(row, w) == [j \in 1..w |-> IF j <= Len(row) THEN PyVal(row[j]) ELSE PyNone]

Table(columns, data) == [columns |-> columns, data |-> data]

DataFrame(rows, columns) ==
    IF rows = <<>> THEN Ok(Table(columns, <<>>))
    ELSE IF Len(columns) # Width(rows) THEN Raise("ValueError", columns)
    ELSE Ok(Table(columns, [k \in 1..Len(rows) |-> Filled(rows[k], Len(columns))]))

-----------------------------------------------------------------------------
(* services/ontodocker/_compat.py: make_dataframe *)

\* [binding[key]["value"] for key in binding]
Values(binding) == [j \in 1..Len(binding) |-> binding[j].value]

\* whether binding[key]["value"] raises for some key of the binding
LacksValue(binding) == \E j \in 1..Len(binding) : ~binding[j].has_value

\* the loop over the bindings, then the DataFrame
Tabulate(bindings, columns) ==
    IF ~bindings.ok THEN bindings
    ELSE IF \E k \in 1..Len(bindings.val) : LacksValue(bindings.val[k])
    THEN Raise("KeyError", S_value)
    ELSE DataFrame([k \in 1..Len(bindings.val) |-> Values(bindings.val[k])], columns)

make_dataframe(result, columns) == Tabulate(Bindings(result), columns)

-----------------------------------------------------------------------------
(* ontodocker.py: make_dataframe.  liste.append(row) and the DataFrame     *)
(* call stand inside the loop over the keys: liste receives the same row   *)
(* object once per key, and df is bound only once a key has been seen.     *)
(* liste is modelled by refs, the binding each of its members belongs to:  *)
(* a member shows the values its row holds at the moment it is read.       *)

\* the rows of liste while key j of binding i is handled
Liste(bindings, refs, i, j) ==
    [k \in 1..Len(refs) |->
        IF refs[k] < i THEN Values(bindings[refs[k]])
        ELSE SubSeq(Values(bindings[i]), 1, j)]

\* the loops from key j of binding i on; df is the outcome bound so far
RECURSIVE LegacyLoop(_, _, _, _, _, _)
LegacyLoop(bindings, columns, i, j, refs, df) ==
    IF i > Len(bindings) THEN df
    ELSE IF j > Len(bindings[i]) THEN LegacyLoop(bindings, columns, i + 1, 1, refs, df)
    ELSE IF ~bindings[i][j].has_value THEN Raise("KeyError", S_value)
    ELSE IF ~DataFrame(Liste(bindings, Append(refs, i), i, j), columns).ok
    THEN DataFrame(Liste(bindings, Append(refs, i), i, j), columns)
    ELSE LegacyLoop(bindings, columns, i, j + 1, Append(refs, i),
                    DataFrame(Liste(bindings, Append(refs, i), i, j), columns))

\* "return df" with df never bound is an UnboundLocalError
LegacyTabulate(bindings, columns) ==
    IF ~bindings.ok THEN bindings
    ELSE LegacyLoop(bindings.val, columns, 1, 1, <<>>, Raise("UnboundLocalError", <<"d","f">>))

legacy_make_dataframe(result, columns) == LegacyTabulate(Bindings(result), columns)

-----------------------------------------------------------------------------
(* SPARQLWrapper.queryAndConvert: the request, then the JSON of the answer *)

queryAndConvert(status, result) ==
    IF status = 0 THEN Raise("URLError", <<>>)
    ELSE IF status = 404 THEN Raise("EndPointNotFound", <<>>)
    ELSE IF status = 500 THEN Raise("EndPointInternalError", <<>>)
    ELSE IF IsHttpError(status) THEN Raise("HTTPError", <<>>)
    ELSE Ok(result)

-----------------------------------------------------------------------------
(* services/ontodocker/sparql.py: query *)

\* the header SparqlResource.query adds: "if self.client.token", the token as it is
QueryAuthorization(token) == IF Truthy(token) THEN PyVal(S_Bearer \o token.s) ELSE PyNone

\* make_dataframe(result, columns) on what queryAndConvert returned
Converted(result, columns) ==
    IF ~result.ok THEN result ELSE make_dataframe(result.val, columns)

\* query once the endpoint is built
RunQuery(endpoint, token, columns, status, result) ==
    IF ~endpoint.ok THEN Effect(endpoint, <<>>)
    ELSE Effect(Converted(queryAndConvert(status, result), columns),
                <<Request("GET", endpoint.val, QueryAuthorization(token))>>)

query(base_url, token, dataset, q, columns, status, result) ==
    IF Blank(q) THEN Effect(Raise("ValidationError", q), <<>>)
    ELSE IF columns = <<>> THEN Effect(Raise("ValidationError", columns), <<>>)
    ELSE RunQuery(sparql_endpoint(base_url, dataset), token, columns, status, result)

-----------------------------------------------------------------------------
(* ontodocker.py: send_query.  setQuery, queryAndConvert and               *)
(* make_dataframe stand under "if token is not None".                      *)

\* the header send_query adds
LegacyAuthorization(token) == PyVal(S_Bearer \o token.s)

LegacyConverted(result, columns) ==
    IF ~result.ok THEN result ELSE legacy_make_dataframe(result.val, columns)

\* columns is PyNone or PyVal(list)
send_query(endpoint, q, columns, token, status, result) ==
    IF Blank(endpoint) THEN Effect(Raise("ValueError", endpoint), <<>>)
    ELSE IF Blank(q) THEN Effect(Raise("ValueError", q), <<>>)
    ELSE IF columns.none THEN Effect(Raise("ValueError", <<>>), <<>>)
    ELSE IF ~token.none
    THEN Effect(LegacyConverted(queryAndConvert(status, result), columns.s),
                <<Request("GET", endpoint, LegacyAuthorization(token))>>)
    ELSE Effect(Raise("UnboundLocalError", <<"r","e","s","u","l","t","_","d","f">>), <<>>)

-----------------------------------------------------------------------------
(* ontodocker.py: upload_turtlefile and download_dataset_as_turtle_file.   *)
(* token and turtlefile are optional; status and body are the server's     *)
(* answer.                                                                  *)

\* f"{scheme}://{address}/api/v1/jena/{dataset_name}"
LegacyDatasetUrl(addr, scheme, dataset_name) ==
    scheme \o SchemeSep \o addr \o <<"/">> \o S_api \o <<"/">> \o S_v1 \o <<"/">> \o S_jena
           \o <<"/">> \o dataset_name

\* {"Authorization": f"Bearer {token}"} if token else {}
LegacyHeaders(token) == IF Truthy(token) THEN PyVal(S_Bearer \o token.s) ELSE PyNone

\* requests.<verb>, raise_for_status and resp.content.decode() under their two "try"
LegacyText(url, status, body) ==
    IF status = 0 \/ IsHttpError(status) THEN Raise("RuntimeError", url)
    ELSE IF HasChar(body, BadByte) THEN Raise("RuntimeError", url)
    ELSE Ok(body)

\* the checks both functions start with
LegacyValueError(addr, dataset_name) ==
    IF Blank(addr) THEN Raise("ValueError", addr)
    ELSE IF Contains(addr, SchemeSep) THEN Raise("ValueError", addr)
    ELSE IF Blank(dataset_name) THEN Raise("ValueError", dataset_name)
    ELSE Ok(NoVal)

\* files={"file": open(turtlefile, "rb")}: the file is opened while the arguments of
\* requests.post are evaluated and nothing closes it.  collected: whether the garbage
\* collector has finalised the file object by the time the function is left.
LegacyPostFile(url, turtlefile, headers, readable, collected, status, body) ==
    IF ~readable
    THEN Effect(Raise("FileNotFoundError", turtlefile), <<FileOpenFailed(turtlefile)>>)
    ELSE Effect(LegacyText(url, status, body),
                <<FileOpen(turtlefile), Request("POST", url, headers)>>
                    \o (IF collected THEN <<FileClose(turtlefile)>> ELSE <<>>))

\* upload_turtlefile(address, dataset_name, turtlefile, token=token, scheme=scheme)
legacy_upload_turtlefile(addr, dataset_name, turtlefile, token, scheme, readable, collected, status, body) ==
    IF ~LegacyValueError(addr, dataset_name).ok
    THEN Effect(LegacyValueError(addr, dataset_name), <<>>)
    ELSE IF turtlefile.none THEN Effect(Raise("ValueError", <<>>), <<>>)
    ELSE LegacyPostFile(LegacyDatasetUrl(addr, scheme, dataset_name), turtlefile.s,
                        LegacyHeaders(token), readable, collected, status, body)

\* os.getcwd()
S_cwd == <<"/","w">>

\* f"{cwd}/{dataset_name}.ttl" when no name is given
TurtlefileName(turtlefile_name, dataset_name) ==
    IF turtlefile_name.none THEN S_cwd \o <<"/">> \o dataset_name \o <<".","t","t","l">>
    ELSE turtlefile_name.s

\* "with open(turtlefile_name, 'w') as file: file.write(result)"; writable: whether
\* open(turtlefile_name, "w") succeeds
WriteFile(path, fetched, request, writable) ==
    IF ~fetched.ok THEN Effect(fetched, <<request>>)
    ELSE IF ~writable THEN Effect(Raise("OSError", path), <<request, FileOpenFailed(path)>>)
    ELSE Effect(Ok(path), <<request, FileOpen(path), FileClose(path)>>)

\* download_dataset_as_turtle_file(address, dataset_name, token=token,
\*                                 turtlefile_name=turtlefile_name, scheme=scheme)
download_dataset_as_turtle_file(addr, dataset_name, token, turtlefile_name, scheme, writable, status, body) ==
    IF ~LegacyValueError(addr, dataset_name).ok
    THEN Effect(LegacyValueError(addr, dataset_name), <<>>)
    ELSE WriteFile(TurtlefileName(turtlefile_name, dataset_name),
                   LegacyText(LegacyDatasetUrl(addr, scheme, dataset_name), status, body),
                   Request("GET", LegacyDatasetUrl(addr, scheme, dataset_name),
                           LegacyHeaders(token)),
                   writable)

-----------------------------------------------------------------------------
(* Inputs of the clients, the dataset operations and the queries *)

\* the arguments of a call; a field the operation does not take holds its idle value
Args(client, name, turtlefile, readable, q, columns, token, result, addr, file, collected) ==
    [client |-> client, name |-> name, turtlefile |-> turtlefile, readable |-> readable,
     q |-> q, columns |-> columns, token |-> token, result |-> result,
     address |-> addr, file |-> file, collected |-> collected]

\* no token, a blank one, a plain one, one with surrounding whitespace
BearerTokens == { PyNone, PyVal(<<" ">>), PyVal(<<"t">>), PyVal(<<" ","u"," ">>) }

\* the address a client is constructed with: a host, a blank string
ClientAddresses == { <<"h">>, <<" ">> }

\* the Authorization header a session supplied by the caller may carry already
S_old == S_Bearer \o <<"o","l","d">>

\* the sessions the caller has made before any client exists
CallerSessions == { <<>>, <<PyNone>>, <<PyVal(S_old)>> }

MaxClients == 2

\* dataset names: plain, padded, empty, blank, slashes only, with a slash inside
DatasetNames == { <<"d">>, <<" ","d"," ">>, <<>>, <<" ">>, <<"/">>, <<"a","/","b">> }

S_file == <<"f",".","t","t","l">>

TurtleFiles == { S_file, <<" ">> }

S_query == <<"S","E","L","E","C","T">>

Queries == { S_query, <<" ">> }

S_ok == <<"o","k">>

E_a1 == Entry(<<"a">>, <<"1">>)
E_a3 == Entry(<<"a">>, <<"3">>)
E_b2 == Entry(<<"b">>, <<"2">>)

\* what a binding may look like: no variable, one, two in either order, one
\* whose dict lacks "value"
BindingChoices ==
    { <<>>, <<E_a1>>, <<E_a3>>, <<E_a1, E_b2>>, <<E_b2, E_a1>>,
      <<EntryWithoutValue(<<"a">>)>>, <<E_a1, EntryWithoutValue(<<"b">>)>> }

MaxBindings == 2

Results ==
    {SparqlResult(bs) : bs \in SeqsUpTo(BindingChoices, MaxBindings)}
        \cup {ResultWithoutResults, ResultWithoutBindings}

ColumnLists == { <<>>, <<<<"a">>>>, <<<<"a">>, <<"b">>>> }

\* what the server of a client answers a query with
QueryResults == { SparqlResult(<<<<E_a1>>>>) }

NoArgs == Args(0, <<>>, <<>>, FALSE, <<>>, PyNone, PyNone, ResultWithoutResults,
               <<>>, PyNone, FALSE)

-----------------------------------------------------------------------------
(* Clients, their sessions and their operations as a state machine.       *)
(* sessions[k] is the Authorization header session k carries, clients[k]  *)
(* the k-th client constructed; args names the client that was called.    *)

InitClients ==
    /\ sessions \in CallerSessions
    /\ clients = <<>>
    /\ args = NoArgs
    /\ wire = <<>>
    /\ server = 200
    /\ text = S_ok
    /\ address = <<>>
    /\ opts = DefaultOpts
    /\ fed = FALSE
    /\ base = <<>>
    /\ segments = <<>>
    /\ rectify = FALSE
    /\ endpoints = <<>>
    /\ call = "none"
    /\ ret = Idle

\* the session the constructor ends up with: the one passed in, or a fresh one
SessionOf(sid) == IF sid = 0 THEN Len(sessions) + 1 ELSE sid

\* the headers of that session before the constructor updates them
HeadersOf(sid) == IF sid = 0 THEN create_session ELSE sessions[sid]

\* BaseClient.__init__ once the address is normalised
Constructed(base_url, token, sid) ==
    IF ~base_url.ok
    THEN /\ ret' = base_url
         /\ UNCHANGED <<clients, sessions>>
    ELSE /\ ret' = Ok(Len(clients) + 1)
         /\ clients' = Append(clients, Client(token, SessionOf(sid), base_url.val))
         /\ sessions' = [k \in 1..(IF sid = 0 THEN Len(sessions) + 1 ELSE Len(sessions)) |->
                            IF k = SessionOf(sid)
                            THEN HeadersUpdate(HeadersOf(sid), bearer_headers(token))
                            ELSE sessions[k]]

\* OntodockerClient(addr, token=token, session=...): sid = 0 passes no session
NewClient ==
    /\ call = "none"
    /\ Len(clients) < MaxClients
    /\ \E addr \in ClientAddresses, token \in BearerTokens, sid \in 0..Len(sessions) :
          /\ args' = [NoArgs EXCEPT !.name = addr, !.token = token, !.client = sid]
          /\ Constructed(normalize_base_url(addr, S_https, DefaultOpts.allowed_schemes,
                                            DefaultOpts.require_host_only), token, sid)
    /\ wire' = <<>>
    /\ call' = "OntodockerClient"
    /\ UNCHANGED <<address, opts, fed, base, segments, text, rectify, endpoints, server>>

\* an operation ran: its outcome and what it did outside the process
Ran(op, effect) ==
    /\ call = "none"
    /\ call' = op
    /\ ret' = effect.out
    /\ wire' = effect.io
    /\ UNCHANGED <<address, opts, fed, base, segments, text, rectify, endpoints, server,
                   sessions, clients>>

\* the Authorization header the session of client c carries
SessionAuth(c) == sessions[clients[c].session]

\* clients[c].datasets.create(name)
DatasetsCreate ==
    \E c \in 1..Len(clients), name \in DatasetNames :
        /\ args' = [NoArgs EXCEPT !.client = c, !.name = name]
        /\ Ran("create", create(clients[c].base_url, name, SessionAuth(c), server, text))

\* clients[c].datasets.delete(name)
DatasetsDelete ==
    \E c \in 1..Len(clients), name \in DatasetNames :
        /\ args' = [NoArgs EXCEPT !.client = c, !.name = name]
        /\ Ran("delete", delete(clients[c].base_url, name, SessionAuth(c), server, text))

\* clients[c].datasets.download_turtle(name)
DatasetsDownloadTurtle ==
    \E c \in 1..Len(clients), name \in DatasetNames :
        /\ args' = [NoArgs EXCEPT !.client = c, !.name = name]
        /\ Ran("download_turtle",
               download_turtle(clients[c].base_url, name, SessionAuth(c), server, text))

\* clients[c].datasets.upload_turtlefile(name, turtlefile)
DatasetsUploadTurtlefile ==
    \E c \in 1..Len(clients), name \in DatasetNames, turtlefile \in TurtleFiles,
       readable \in BOOLEAN :
        /\ args' = [NoArgs EXCEPT !.client = c, !.name = name, !.turtlefile = turtlefile,
                                  !.readable = readable]
        /\ Ran("upload_turtlefile",
               upload_turtlefile(clients[c].base_url, name, turtlefile, readable,
                                 SessionAuth(c), server, text))

\* clients[c].sparql.endpoint(dataset)
SparqlEndpoint ==
    \E c \in 1..Len(clients), dataset \in DatasetNames :
        /\ args' = [NoArgs EXCEPT !.client = c, !.name = dataset]
        /\ Ran("endpoint", Effect(sparql_endpoint(clients[c].base_url, dataset), <<>>))

\* clients[c].sparql.query(dataset, q, columns)
SparqlQuery ==
    \E c \in 1..Len(clients), dataset \in DatasetNames, q \in Queries,
       columns \in {<<>>, <<<<"a">>>>}, result \in QueryResults :
        /\ args' = [NoArgs EXCEPT !.client = c, !.name = dataset, !.q = q,
                                  !.columns = PyVal(columns), !.result = result]
        /\ Ran("query", query(clients[c].base_url, clients[c].token, dataset, q, columns,
                              server, result))

\* the call has returned to the caller, who goes on with the clients there are
Returned ==
    /\ call # "none"
    /\ call' = "none"
    /\ ret' = Idle
    /\ args' = NoArgs
    /\ wire' = <<>>
    /\ UNCHANGED <<address, opts, fed, base, segments, text, rectify, endpoints, server,
                   sessions, clients>>

NextClients ==
    \/ NewClient
    \/ Returned
    \/ DatasetsCreate
    \/ DatasetsDelete
    \/ DatasetsDownloadTurtle
    \/ DatasetsUploadTurtlefile
    \/ SparqlEndpoint
    \/ SparqlQuery

SpecClients == InitClients /\ [][NextClients]_vars

-----------------------------------------------------------------------------
(* The tabularisers and the legacy query function as a state machine.     *)
(* args holds the result the endpoint answers with and the columns the    *)
(* caller asks for.                                                        *)

InitQuery ==
    /\ \E result \in Results, columns \in ColumnLists :
          args = [NoArgs EXCEPT !.result = result, !.columns = PyVal(columns)]
    /\ wire = <<>>
    /\ sessions = <<>>
    /\ clients = <<>>
    /\ server \in {200, 500}
    /\ text = <<>>
    /\ address = <<>>
    /\ opts = DefaultOpts
    /\ fed = FALSE
    /\ base = <<>>
    /\ segments = <<>>
    /\ rectify = FALSE
    /\ endpoints = <<>>
    /\ call = "none"
    /\ ret = Idle

\* make_dataframe(result, columns) of _compat.py
MakeDataframe ==
    /\ call = "none"
    /\ call' = "make_dataframe"
    /\ ret' = make_dataframe(args.result, args.columns.s)
    /\ UNCHANGED <<address, opts, fed, base, segments, text, rectify, endpoints, server,
                   args, wire, sessions, clients>>

\* make_dataframe(result, columns) of ontodocker.py
LegacyMakeDataframe ==
    /\ call = "none"
    /\ call' = "legacy_make_dataframe"
    /\ ret' = legacy_make_dataframe(args.result, args.columns.s)
    /\ UNCHANGED <<address, opts, fed, base, segments, text, rectify, endpoints, server,
                   args, wire, sessions, clients>>

\* the outcome of send_query and what it sent
Sent(effect) ==
    /\ call' = "send_query"
    /\ ret' = effect.out
    /\ wire' = effect.io

\* send_query(endpoint, q, columns, token=token) of ontodocker.py
SendQuery ==
    /\ call = "none"
    /\ \E endpoint \in {U_sparql, <<" ">>}, q \in Queries, token \in BearerTokens \cup {PyVal(<<>>)},
          given \in BOOLEAN :
          /\ args' = [args EXCEPT !.name = endpoint, !.q = q, !.token = token,
                                  !.columns = IF given THEN @ ELSE PyNone]
          /\ Sent(send_query(endpoint, q, IF given THEN args.columns ELSE PyNone, token,
                             server, args.result))
    /\ UNCHANGED <<address, opts, fed, base, segments, text, rectify, endpoints, server,
                   sessions, clients>>

NextQuery == MakeDataframe \/ LegacyMakeDataframe \/ SendQuery

SpecQuery == InitQuery /\ [][NextQuery]_vars

-----------------------------------------------------------------------------
(* One client and the legacy functions against a server whose answers      *)
(* change: every operation may be invoked again and again, wire keeps all   *)
(* that was sent, opened and closed since the start.                        *)

\* the answers of the server: no response, 2xx, a 3xx without redirect, 4xx, 5xx
HttpStatuses == Statuses \cup {304}

\* the bodies of the server: an endpoint listing, bytes that are no UTF-8
HttpBodies == { PyList(<<U_sparql>>), <<BadByte>> }

\* a dataset name, a blank one
HttpNames == { <<"d">>, <<" ">> }

\* the host the legacy upload and download are called with
LegacyHosts == { <<"h">> }

\* the optional path of the legacy functions
OptionalFiles == { PyNone, PyVal(S_file) }

\* the events wire may hold when an operation starts
MaxWire == 2

InitHttp ==
    /\ sessions = <<HeadersUpdate(create_session, bearer_headers(PyVal(<<"t">>)))>>
    /\ clients = <<Client(PyVal(<<"t">>), 1,
                          normalize_base_url(<<"h">>, S_https, DefaultOpts.allowed_schemes,
                                             DefaultOpts.require_host_only).val)>>
    /\ args = NoArgs
    /\ wire = <<>>
    /\ server \in HttpStatuses
    /\ text \in HttpBodies
    /\ address = <<>>
    /\ opts = DefaultOpts
    /\ fed = FALSE
    /\ base = <<>>
    /\ segments = <<>>
    /\ rectify = TRUE
    /\ endpoints = <<>>
    /\ call = "none"
    /\ ret = Idle

\* an operation was invoked: its outcome, and what it did outside the process
Invoked(op, a, effect) ==
    /\ Len(wire) < MaxWire
    /\ call' = op
    /\ args' = a
    /\ ret' = effect.out
    /\ wire' = wire \o effect.io
    /\ UNCHANGED <<address, opts, fed, base, segments, text, rectify, endpoints, server,
                   sessions, clients>>

\* self.client._get_text(join_url(base_url, segments=["api", "v1", "endpoints"]))
endpoints_request(base_url, auth, status, body) ==
    request_text("GET", join_url(base_url, <<S_api, S_v1, S_endpoints>>), auth, status, body)

\* clients[1].endpoints.list_raw()
CallListRaw ==
    Invoked("list_raw", [NoArgs EXCEPT !.client = 1],
            Effect(list_raw(clients[1].base_url, rectify, server, text),
                   endpoints_request(clients[1].base_url, SessionAuth(1), server, text).io))

\* clients[1].endpoints.list()
CallList ==
    Invoked("list", [NoArgs EXCEPT !.client = 1],
            Effect(list(clients[1].base_url, rectify, server, text),
                   endpoints_request(clients[1].base_url, SessionAuth(1), server, text).io))

\* clients[1].datasets.list()
CallDatasetsList ==
    Invoked("datasets_list", [NoArgs EXCEPT !.client = 1],
            Effect(datasets_list(clients[1].base_url, rectify, server, text),
                   endpoints_request(clients[1].base_url, SessionAuth(1), server, text).io))

\* clients[1].datasets.create(name)
CallCreate ==
    \E name \in HttpNames :
        Invoked("create", [NoArgs EXCEPT !.client = 1, !.name = name],
                create(clients[1].base_url, name, SessionAuth(1), server, text))

\* clients[1].datasets.delete(name)
CallDelete ==
    \E name \in HttpNames :
        Invoked("delete", [NoArgs EXCEPT !.client = 1, !.name = name],
                delete(clients[1].base_url, name, SessionAuth(1), server, text))

\* clients[1].datasets.download_turtle(name)
CallDownloadTurtle ==
    \E name \in HttpNames :
        Invoked("download_turtle", [NoArgs EXCEPT !.client = 1, !.name = name],
                download_turtle(clients[1].base_url, name, SessionAuth(1), server, text))

\* clients[1].datasets.upload_turtlefile(name, turtlefile)
CallUploadTurtlefile ==
    \E name \in HttpNames, turtlefile \in TurtleFiles, readable \in BOOLEAN :
        Invoked("upload_turtlefile",
                [NoArgs EXCEPT !.client = 1, !.name = name, !.turtlefile = turtlefile,
                               !.readable = readable],
                upload_turtlefile(clients[1].base_url, name, turtlefile, readable,
                                  SessionAuth(1), server, text))

\* clients[1].sparql.query(dataset, q, columns)
CallQuery ==
    \E dataset \in HttpNames, q \in Queries, result \in QueryResults :
        Invoked("query",
                [NoArgs EXCEPT !.client = 1, !.name = dataset, !.q = q,
                               !.columns = PyVal(<<<<"a">>>>), !.result = result],
                query(clients[1].base_url, clients[1].token, dataset, q, <<<<"a">>>>,
                      server, result))

\* ontodocker.upload_turtlefile(addr, dataset_name, turtlefile, token=token)
CallLegacyUploadTurtlefile ==
    \E addr \in LegacyHosts, dataset_name \in HttpNames, turtlefile \in OptionalFiles,
       token \in {PyNone, PyVal(<<"t">>)}, readable \in BOOLEAN, collected \in BOOLEAN :
        Invoked("legacy_upload_turtlefile",
                [NoArgs EXCEPT !.address = addr, !.name = dataset_name, !.file = turtlefile,
                               !.token = token, !.readable = readable,
                               !.collected = collected],
                legacy_upload_turtlefile(addr, dataset_name, turtlefile, token, S_https,
                                         readable, collected, server, text))

\* ontodocker.download_dataset_as_turtle_file(addr, dataset_name, token=token,
\*                                            turtlefile_name=turtlefile_name)
CallDownloadDatasetAsTurtleFile ==
    \E addr \in LegacyHosts, dataset_name \in HttpNames,
       turtlefile_name \in OptionalFiles, token \in {PyNone, PyVal(<<"t">>)},
       writable \in BOOLEAN :
        Invoked("download_dataset_as_turtle_file",
                [NoArgs EXCEPT !.address = addr, !.name = dataset_name,
                               !.file = turtlefile_name, !.token = token,
                               !.readable = writable],
                download_dataset_as_turtle_file(addr, dataset_name, token, turtlefile_name,
                                                S_https, writable, server, text))

\* the server goes down, comes back, answers differently
ServerChanges ==
    /\ \E status \in HttpStatuses, body \in HttpBodies :
          /\ <<status, body>> # <<server, text>>
          /\ server' = status
          /\ text' = body
    /\ UNCHANGED <<address, opts, fed, base, segments, rectify, endpoints, args, wire,
                   sessions, clients, call, ret>>

NextHttp ==
    \/ CallListRaw
    \/ CallList
    \/ CallDatasetsList
    \/ CallCreate
    \/ CallDelete
    \/ CallDownloadTurtle
    \/ CallUploadTurtlefile
    \/ CallQuery
    \/ CallLegacyUploadTurtlefile
    \/ CallDownloadDatasetAsTurtleFile
    \/ ServerChanges

SpecHttp == InitHttp /\ [][NextHttp]_vars

-----------------------------------------------------------------------------
(* Claims about the address normaliser (checked under SpecNormalize) *)

Normalized == call = "normalize_base_url"

Normalize(addr) ==
    normalize_base_url(addr, opts.default_scheme, opts.allowed_schemes,
                       opts.require_host_only)

(* C6. normalize_base_url is idempotent: whenever it succeeds, feeding the  *)
(* returned base URL back in, with the same options, succeeds and returns   *)
(* the identical string.                                                    *)
C6_Idempotent == (fed /\ Normalized) => (ret.ok /\ ret.val = address)

\* v is "<scheme>://<authority>": a lower-cased allowed scheme, then "://", then
\* a non-empty authority, and no trailing slash, path, query or fragment
HostOnlyForm(v) ==
    \E k \in 1..Len(v) :
        LET sch  == SubSeq(v, 1, k - 1)
            auth == From(v, k + 3)
        IN  /\ SubSeq(v, k, k + 2) = SchemeSep
            /\ sch \in opts.allowed_schemes
            /\ sch = Lower(sch)
            /\ auth # <<>>
            /\ \A i \in 1..Len(auth) : auth[i] \notin {"/", "?", "#"}

ExamplesAgree ==
    (opts.default_scheme = S_https /\ S_https \in opts.allowed_schemes
       /\ address \in {S_example_org, S_https \o SchemeSep \o S_example_org})
    => ret = Ok(S_https \o SchemeSep \o S_example_org)

PartsOf(addr) ==
    LET raw == Strip(addr)
    IN  UrlSplit(IF Contains(raw, SchemeSep) THEN raw
                 ELSE opts.default_scheme \o SchemeSep \o raw)

EffectiveScheme(addr) ==
    LET p == PartsOf(addr)
    IN  Lower(IF p.scheme # <<>> THEN p.scheme ELSE opts.default_scheme)

MustFail(addr) ==
    \/ Blank(addr)
    \/ EffectiveScheme(addr) \notin opts.allowed_schemes
    \/ PartsOf(addr).netloc = <<>>
    \/ /\ opts.require_host_only
       /\ \/ PartsOf(addr).path \notin {<<>>, <<"/">>}
          \/ PartsOf(addr).query # <<>>
          \/ PartsOf(addr).fragment # <<>>

(* C8. normalize_base_url fails with InvalidAddress exactly when the        *)
(* address is blank, its effective scheme is not allowed, it has no         *)
(* authority, or (require_host_only) it carries a path other than "" or     *)
(* "/", a query or a fragment; in every other case it succeeds.             *)
C8_FailsExactlyWhen ==
    Normalized =>
        IF MustFail(address)
        THEN ~ret.ok /\ ret.err = "InvalidAddressError"
        ELSE ret.ok

S_example_port_slash == S_example_org \o S_port \o <<"/">>

(* C9 as stated. normalize_base_url("example.org:8080/") with               *)
(* require_host_only = true fails with InvalidAddress.                      *)
C9_RootPathRejected ==
    (Normalized /\ opts = DefaultOpts /\ address = S_example_port_slash)
        => (~ret.ok /\ ret.err = "InvalidAddressError")

(* C9 amended. With require_host_only = true (and the other defaults)       *)
(* normalize_base_url("example.org:8080/") succeeds and returns             *)
(* "https://example.org:8080": the root path is accepted; it is             *)
(* "example.org:8080/foo" that fails with InvalidAddress.                   *)
C9_RootPathAccepted ==
    (Normalized /\ opts = DefaultOpts) =>
        /\ address = S_example_port_slash
              => ret = Ok(S_https \o SchemeSep \o S_example_org \o S_port)
        /\ address = S_example_port_slash \o S_foo
              => (~ret.ok /\ ret.err = "InvalidAddressError")

C9_Witness ==
    Normalized /\ opts = DefaultOpts /\ address = S_example_port_slash /\ ret.ok

-----------------------------------------------------------------------------
(* Claims about join_url (checked under SpecJoin) *)

\* the surviving segments, each preceded by one "/"
RECURSIVE Chain(_)
Chain(segs) ==
    IF segs = <<>> THEN <<>>
    ELSE LET c == StripChars(Head(segs), {"/"})
         IN  (IF c = <<>> THEN <<>> ELSE <<"/">> \o c) \o Chain(Tail(segs))

(* C10. join_url fails with ValidationError for a blank base; otherwise it  *)
(* returns the base without its trailing slashes followed by the segments   *)
(* that are non-empty after stripping their leading and trailing slashes,   *)
(* each preceded by exactly one "/", in input order (the slash-stripped     *)
(* base alone when no segment survives).                                    *)
C10_JoinUrl ==
    call = "join_url" =>
        /\ IF Blank(base)
           THEN ~ret.ok /\ ret.err = "ValidationError"
           ELSE ret = Ok(RStripChars(base, {"/"}) \o Chain(segments))
        /\ (base = S_base \o <<"/">> /\ segments = <<S_api, S_v1, S_jena>>)
              => ret = Ok(S_base \o <<"/">> \o S_api \o <<"/">> \o S_v1 \o <<"/">> \o S_jena)
        /\ (base = S_base /\ segments = <<>>) => ret = Ok(S_base)

C10_Witness ==
    /\ call = "join_url" /\ ret.ok
    /\ base = S_base \o <<"/", "/">>
    /\ Len(segments) = 3
    /\ StripChars(segments[1], {"/"}) # <<>>
    /\ StripChars(segments[2], {"/"}) = <<>>
    /\ StripChars(segments[3], {"/"}) # segments[3]

-----------------------------------------------------------------------------
(* Claims about the dataset-name extractor (checked under SpecEndpoints) *)

Extracted == call \in {"extract_dataset_names", "legacy_extract_dataset_names"}

\* segments start with [api, v1, jena] and have length >= 4
HasLayout(segs) == Len(segs) >= 4 /\ SubSeq(segs, 1, 3) = <<S_api, S_v1, S_jena>>

\* the URL can be split
Splits(u) == ~UrlSplit(u).raised

\* the URL can be split and its path has the expected layout
ExpectedLayout(u) == Splits(u) /\ HasLayout(PathSegments(UrlSplit(u)))

\* path segment index 3 (the fourth segment)
Segment3(u) == PathSegments(UrlSplit(u))[4]

U_d == <<"h","t","t","p","s",":","/","/","h","/","a","p","i","/","v","1","/","j","e","n","a","/","d">>

SameNameWithAndWithoutSparql ==
    /\ extract_dataset_names(<<U_sparql>>) = Ok(<<<<"d">>>>)
    /\ extract_dataset_names(<<U_d>>) = Ok(<<<<"d">>>>)
    /\ legacy_extract_dataset_names(<<U_sparql>>) = Ok(<<<<"d">>>>)
    /\ legacy_extract_dataset_names(<<U_d>>) = Ok(<<<<"d">>>>)

(* C1. When every URL of the input has a path whose non-empty segments      *)
(* start with [api, v1, jena] and number at least 4, extract_dataset_names   *)
(* (of _compat.py and of ontodocker.py) returns one name per URL, in input   *)
(* order, each name being segment index 3 of its URL; and                    *)
(* .../api/v1/jena/d/sparql and .../api/v1/jena/d both yield d.              *)
C1_OneNamePerUrl ==
    /\ (Extracted /\ \A j \in 1..Len(endpoints) : ExpectedLayout(endpoints[j]))
         => /\ ret.ok
            /\ Len(ret.val) = Len(endpoints)
            /\ \A j \in 1..Len(endpoints) : ret.val[j] = Segment3(endpoints[j])
    /\ SameNameWithAndWithoutSparql

\* two different URLs, one with and one without /sparql, named in input order
C1_Witness ==
    /\ Extracted
    /\ endpoints = <<U_sparql, U_plain>>
    /\ ret = Ok(<<<<"d">>, <<"e">>>>)

\* the positions of the URLs that do not match the expected layout
Offending == {j \in 1..Len(endpoints) : ~ExpectedLayout(endpoints[j])}

\* EndpointsResource.list fails, returning nothing, when list_raw returned a
\* list with a URL that does not match
ListFailsOn(listed) ==
    (listed.ok /\ \E j \in 1..Len(listed.val) : ~ExpectedLayout(listed.val[j]))
        => (~ret.ok /\ ret.val = NoVal)

ListIsAllOrNothing ==
    call = "list" => ListFailsOn(list_raw(base, rectify, server, text))

(* C2 as stated. If any URL of the input does not match the expected path   *)
(* layout, extract_dataset_names fails with a format error (ValueError)      *)
(* whose message names the first offending URL, and returns no names;        *)
(* EndpointsResource.list then returns no EndpointInfo.                      *)
C2_NamesFirstOffender ==
    /\ (Extracted /\ Offending # {})
         => /\ ~ret.ok
            /\ ret.err = "ValueError"
            /\ ret.val = NoVal
            /\ ret.msg = endpoints[MinOf(Offending)]
    /\ ListIsAllOrNothing

(* C2 amended. If any URL of the input does not match the expected path     *)
(* layout, extract_dataset_names fails with a ValueError and returns no      *)
(* names; the message names the first offending URL when that URL can be     *)
(* split, and is urlsplit's own message, naming no URL, when it cannot;      *)
(* EndpointsResource.list then returns no EndpointInfo.                      *)
C2_FailsAtFirstOffender ==
    /\ (Extracted /\ Offending # {})
         => /\ ~ret.ok
            /\ ret.err = "ValueError"
            /\ ret.val = NoVal
            /\ Splits(endpoints[MinOf(Offending)])
                 => ret.msg = endpoints[MinOf(Offending)]
            /\ ~Splits(endpoints[MinOf(Offending)]) => ret.msg = <<>>
    /\ ListIsAllOrNothing

\* a well-formed URL followed by an offending one: no name is returned
C2_Witness ==
    /\ Extracted
    /\ endpoints = <<U_sparql, U_version>>
    /\ ret = Raise("ValueError", U_version)

-----------------------------------------------------------------------------
(* Claims about the endpoint parser (checked under SpecParse) *)

\* the three substitutions of the specification, in its order
SubstitutedInOrder(t) ==
    Replace(Replace(Replace(t, S_http_colon, S_https_colon),
                    S_None_api_jena, S_api_v1_jena),
            S_443_api_jena, S_api_v1_jena)

(* C3. With rectify enabled the parser replaces, on the raw text and in     *)
(* this order, every "http:" by "https:", every ":None/api/jena" by          *)
(* "/api/v1/jena" and every ":443/api/jena" by "/api/v1/jena", and parses    *)
(* the result; "http://x:None/api/jena/ds/sparql" becomes                    *)
(* "https://x/api/v1/jena/ds/sparql".                                        *)
C3_RectifyOrder ==
    /\ call = "rectify_endpoints" => ret = Ok(SubstitutedInOrder(text))
    /\ (call = "parse_endpoints_response" /\ rectify)
         => ret = parse_endpoints_response(SubstitutedInOrder(text), FALSE)
    /\ rectify_endpoints(S_example_legacy) = S_example_rectified

\* the documented example, parsed with rectify enabled
C3_Witness ==
    /\ call = "parse_endpoints_response"
    /\ rectify
    /\ text = PyList(<<S_example_legacy>>)
    /\ ret = Ok(<<S_example_rectified>>)

\* the outcome the claim gives a text whose literal value is value
ListOrParseError(value) ==
    IF value.st = "ok" /\ IsListOfStr(value.v)
    THEN ret = Ok(Strings(value.v))
    ELSE ~ret.ok /\ ret.err = "ValueError"

(* C4. parse_endpoints_response returns the list of strings the (possibly   *)
(* rectified) text denotes, and fails with a parse error (ValueError) for    *)
(* every text that is no parseable literal or whose value is no list of      *)
(* strings; with rectify = FALSE the text is parsed as received.             *)
C4_ListOrParseError ==
    call = "parse_endpoints_response"
        => ListOrParseError(literal_eval(IF rectify THEN SubstitutedInOrder(text)
                                         ELSE text))

-----------------------------------------------------------------------------
(* Claims about the endpoint-listing operations (checked under SpecEndpoints) *)

\* the statuses of a failed exchange: no response, or an HTTP error status
FailingStatuses == {st \in Statuses : st = 0 \/ IsHttpError(st)}

\* the error kinds the operation that ran reports for a failed exchange
TransportKinds ==
    IF call = "list_raw"
    THEN {list_raw(base, rectify, st, text).err : st \in FailingStatuses}
    ELSE {get_all_dataset_sparql_endpoints(address, S_https, rectify, st, text).err :
              st \in FailingStatuses}

\* the operation got its response and failed on the body
FailedOnBody ==
    /\ call \in {"list_raw", "get_all_dataset_sparql_endpoints"}
    /\ server = 200
    /\ ~Blank(address)
    /\ ~Contains(address, SchemeSep)
    /\ ~ret.ok

(* C5. In list_raw and in the legacy get_all_dataset_sparql_endpoints, a    *)
(* body that fails to parse as a list of strings is reported with an error   *)
(* kind that differs from every kind the same operation reports for an       *)
(* HTTP or transport failure.                                                *)
C5_KindsDiffer == FailedOnBody => ret.err \notin TransportKinds

-----------------------------------------------------------------------------
(* Claims about the dataset operations and the clients (checked under      *)
(* SpecClients)                                                             *)

DatasetOps == {"create", "delete", "download_turtle", "upload_turtlefile"}

\* the requests the last call sent
Requests == {k \in 1..Len(wire) : wire[k].io = "request"}

\* the non-empty path segments of a URL
PathOf(url) == PathSegments(UrlSplit(url))

\* url is b + "/api/v1/jena/<dataset>" + tail, with exactly n path segments,
\* the fourth of them the dataset
AddressesDataset(url, b, dataset, tail, n) ==
    /\ url = b \o S_api_v1_jena \o <<"/">> \o dataset \o tail
    /\ Len(PathOf(url)) = n
    /\ PathOf(url)[4] = dataset

(* C11. For every non-blank dataset name, create, delete, download_turtle   *)
(* and upload_turtlefile send their request to base + "/api/v1/jena/<name>"  *)
(* (exactly four path segments, the fourth the dataset), and                 *)
(* Sparql.endpoint returns base + "/api/v1/jena/<dataset>/sparql" (exactly   *)
(* five): no accepted name makes an operation address "/api/v1/jena" itself  *)
(* or a path with another number of segments.                                *)
C11_DatasetPaths ==
    /\ (call \in DatasetOps /\ ~Blank(args.name)) =>
          \A k \in Requests :
              AddressesDataset(wire[k].url, clients[args.client].base_url,
                               Strip(args.name), <<>>, 4)
    /\ (call = "endpoint" /\ ~Blank(args.name)) =>
          /\ ret.ok
          /\ AddressesDataset(ret.val, clients[args.client].base_url,
                              Strip(args.name), <<"/">> \o S_sparql, 5)

-----------------------------------------------------------------------------
(* Claims about the endpoint listing and the dataset listing (checked      *)
(* under SpecEndpoints)                                                     *)

\* the EndpointInfo of one URL: the name extracted from it, paired with it
InfoOf(url) == EndpointInfo(extract_dataset_names(<<url>>).val[1], url)

\* infos has one EndpointInfo per URL of listed, in the same order
OnePerUrl(infos, listed) ==
    /\ listed.ok
    /\ Len(infos) = Len(listed.val)
    /\ \A j \in 1..Len(infos) : infos[j] = InfoOf(listed.val[j])

(* C12. Endpoints.list returns exactly one EndpointInfo per URL returned by *)
(* list_raw, in the same order, the i-th being the dataset name extracted   *)
(* from the i-th URL paired with that same URL.                             *)
C12_OnePerUrl ==
    (call = "list" /\ ret.ok) => OnePerUrl(ret.val, list_raw(base, rectify, server, text))

\* two different URLs with different names, listed in the order received
C12_Witness ==
    /\ call = "list" /\ ret.ok
    /\ endpoints = <<U_plain, U_sparql>>
    /\ ret.val = <<EndpointInfo(<<"e">>, U_plain), EndpointInfo(<<"d">>, U_sparql)>>

\* a dataset name: one path segment, not blank
SingleSegment(name) == name # <<>> /\ ~HasChar(name, "/")

(* C13. Every EndpointInfo returned by Endpoints.list has a dataset name that *)
(* is a single path segment and non-empty after trimming whitespace.          *)
C13_NamesNotBlank ==
    (call = "list" /\ ret.ok) =>
        \A j \in 1..Len(ret.val) :
            SingleSegment(ret.val[j].dataset) /\ ~Blank(ret.val[j].dataset)

\* s is strictly ascending: sorted and free of duplicates
StrictlyAscending(s) == \A j \in 1..(Len(s) - 1) : StrLess(s[j], s[j + 1])

\* the dataset names of a listing
DatasetsOf(infos) == {infos[j].dataset : j \in 1..Len(infos)}

\* what Datasets.list makes of the outcome of Endpoints.list
SortedSetOf(infos) ==
    IF ~infos.ok THEN ret = infos
    ELSE /\ ret.ok
         /\ StrictlyAscending(ret.val)
         /\ {ret.val[j] : j \in 1..Len(ret.val)} = DatasetsOf(infos.val)

(* C14. Datasets.list returns a strictly ascending (sorted, duplicate-free)  *)
(* list whose set of elements is the set of dataset names of Endpoints.list  *)
(* for the same response, also when several endpoints name one dataset.      *)
C14_SortedSet ==
    call = "datasets_list" => SortedSetOf(list(base, rectify, server, text))

\* two endpoints of one dataset give one name
C14_Witness ==
    /\ call = "datasets_list" /\ ret = Ok(<<<<"d">>>>)
    /\ endpoints = <<U_sparql, U_legacy>>
    /\ rectify

\* two datasets listed in descending order come out ascending
C14_WitnessOrder ==
    /\ call = "datasets_list" /\ ret = Ok(<<<<"d">>, <<"e">>>>)
    /\ endpoints = <<U_plain, U_sparql>>

-----------------------------------------------------------------------------
(* Claims about validation and authorisation (checked under SpecClients) *)

\* the last call was given an argument the operation must reject
InvalidArguments ==
    \/ call \in DatasetOps /\ Blank(args.name)
    \/ call = "upload_turtlefile" /\ Blank(args.turtlefile)
    \/ call = "endpoint" /\ Blank(args.name)
    \/ call = "query" /\ (Blank(args.q) \/ args.columns.s = <<>> \/ Blank(args.name))

(* C15. Sparql.query with a blank query, empty columns or a blank dataset,  *)
(* Sparql.endpoint with a blank dataset, and create, delete,                *)
(* download_turtle and upload_turtlefile with a blank name (or a blank      *)
(* turtlefile path) each fail with ValidationError without sending any      *)
(* request and without opening any file.                                    *)
C15_ValidationBeforeIO ==
    InvalidArguments => (~ret.ok /\ ret.err = "ValidationError" /\ wire = <<>>)

\* a good name with a blank path, and a good query with a blank dataset
C15_Witness ==
    /\ call = "upload_turtlefile"
    /\ ~Blank(args.name) /\ Blank(args.turtlefile) /\ args.readable
    /\ ret.err = "ValidationError" /\ wire = <<>>

C15_WitnessQuery ==
    /\ call = "query"
    /\ ~Blank(args.q) /\ args.columns.s # <<>> /\ Blank(args.name)
    /\ ret.err = "ValidationError" /\ wire = <<>>

\* the client has a token that is not blank
HasToken(c) == ~clients[c].token.none /\ ~Blank(clients[c].token.s)

\* the Authorization header that names the token of client c (as given, or trimmed)
BearerOf(c) ==
    { PyVal(S_Bearer \o clients[c].token.s), PyVal(S_Bearer \o Strip(clients[c].token.s)) }

(* C20. After any sequence of client constructions and requests, also with  *)
(* a caller-supplied session that is shared between clients or carries      *)
(* headers already, every request sent through a client carries             *)
(* "Authorization: Bearer <that client's token>" when the client has a      *)
(* non-blank token and no Authorization header when it has none; this for   *)
(* the HTTP operations and for Sparql.query alike.                          *)
C20_OwnTokenOnly ==
    (call \in DatasetOps \cup {"query"}) =>
        \A k \in Requests :
            IF HasToken(args.client)
            THEN wire[k].authorization \in BearerOf(args.client)
            ELSE wire[k].authorization = PyNone

-----------------------------------------------------------------------------
(* Claims about the tabularisers and the legacy query (checked under       *)
(* SpecQuery)                                                               *)

\* the bindings of the result, when it has them
ResultBindings == Bindings(args.result).val

\* every entry of every binding has its "value"
AllValued == \A i \in 1..Len(ResultBindings) : ~LacksValue(ResultBindings[i])

\* some binding yields a number of values other than len(columns)
WidthMismatch ==
    \E i \in 1..Len(ResultBindings) : Len(ResultBindings[i]) # Len(args.columns.s)

(* C16. make_dataframe of _compat.py fails with a shape-mismatch error      *)
(* (ValueError) whenever some binding yields a number of values other than  *)
(* len(columns), also when the bindings differ in width or only some rows   *)
(* are narrower than len(columns); it never returns a ragged or padded      *)
(* table.                                                                   *)
C16_MismatchRejected ==
    (call = "make_dataframe" /\ Bindings(args.result).ok /\ AllValued) =>
        /\ WidthMismatch => (~ret.ok /\ ret.err = "ValueError")
        /\ ret.ok => \A i \in 1..Len(ret.val.data) :
                        /\ Len(ret.val.data[i]) = Len(args.columns.s)
                        /\ \A j \in 1..Len(ret.val.data[i]) : ~ret.val.data[i][j].none

\* row lists exactly the values of binding, each a str, in key order
ListsValues(row, binding) ==
    row = [j \in 1..Len(binding) |-> PyVal(binding[j].value)]

(* C17. make_dataframe of _compat.py produces exactly one row per binding,  *)
(* in binding order (no rows for no bindings), the i-th row listing the     *)
(* "value" fields of the i-th binding's variables in that binding's own key *)
(* order; a result without "results", "bindings" or a "value" fails with a  *)
(* key-lookup error (KeyError).                                             *)
C17_RowPerBinding ==
    call = "make_dataframe" =>
        /\ (~Bindings(args.result).ok \/ ~AllValued) => (~ret.ok /\ ret.err = "KeyError")
        /\ ret.ok =>
              /\ Len(ret.val.data) = Len(ResultBindings)
              /\ \A i \in 1..Len(ResultBindings) :
                    ListsValues(ret.val.data[i], ResultBindings[i])

(* C18. make_dataframe of ontodocker.py returns a table with one row per    *)
(* binding for every SPARQL result, also for bindings with more than one    *)
(* variable and for results without bindings.                               *)
C18_LegacyRowPerBinding ==
    (call = "legacy_make_dataframe" /\ Bindings(args.result).ok /\ AllValued
        /\ ~WidthMismatch) =>
        /\ ret.ok
        /\ Len(ret.val.data) = Len(ResultBindings)
        /\ \A i \in 1..Len(ResultBindings) : ListsValues(ret.val.data[i], ResultBindings[i])

(* C19. send_query of ontodocker.py, given a non-blank endpoint, a non-blank *)
(* query and columns other than None, runs the query and returns the table   *)
(* for every value of token, None included.                                  *)
C19_RunsForEveryToken ==
    (call = "send_query" /\ ~Blank(args.name) /\ ~Blank(args.q) /\ ~args.columns.none) =>
        /\ Requests # {}
        /\ (server = 200 /\ legacy_make_dataframe(args.result, args.columns.s).ok)
              => ret = legacy_make_dataframe(args.result, args.columns.s)

-----------------------------------------------------------------------------
(* A claim about rectify_endpoints (checked under SpecParse) *)

\* t holds none of the three legacy patterns
FreeOfLegacy(t) ==
    /\ ~Contains(t, S_http_colon)
    /\ ~Contains(t, S_None_api_jena)
    /\ ~Contains(t, S_443_api_jena)

\* out is what a rectifier made of t, again is what it makes of out
Rectified(t, out, again) ==
    /\ FreeOfLegacy(out)
    /\ again = out
    /\ FreeOfLegacy(t) => out = t

(* C24. For every input text the output of rectify_endpoints (of _compat.py *)
(* and of ontodocker.py) holds none of "http:", ":None/api/jena" and        *)
(* ":443/api/jena": no later substitution re-creates a pattern an earlier   *)
(* one removed; so rectify_endpoints is idempotent and leaves a text free   *)
(* of the three patterns unchanged.                                         *)
C24_NoLegacyPatternLeft ==
    call = "rectify_endpoints" =>
        /\ ret.ok
        /\ Rectified(text, ret.val, rectify_endpoints(ret.val))
        /\ Rectified(text, legacy_rectify_endpoints(text),
                     legacy_rectify_endpoints(legacy_rectify_endpoints(text)))

\* a text with all three patterns, one after the other
C24_Witness ==
    /\ call = "rectify_endpoints"
    /\ text = PyList(<<S_http_colon \o S_None_api_jena \o S_443_api_jena>>)
    /\ ret.val # text
    /\ FreeOfLegacy(ret.val)

-----------------------------------------------------------------------------
(* Claims about the HTTP exchange of the client (checked under SpecHttp) *)

\* the step is an invocation of an operation
InvokedStep == <<call, ret, args, wire>>' # <<call, ret, args, wire>>

\* the requests the invocation of the step has sent
NewRequests == {k \in (Len(wire) + 1)..Len(wire') : wire'[k].io = "request"}

\* the operations of the client that read the response with read_text
TextOps == {"list_raw", "list", "datasets_list", "create", "delete", "download_turtle",
            "upload_turtlefile"}

\* the server has answered a request of a text operation in the step
Answered == InvokedStep /\ call' \in TextOps /\ NewRequests # {} /\ server # 0

\* the operation of the step raised HttpError with the fields of the exchange
RaisedHttpError ==
    /\ ~ret'.ok
    /\ ret'.val = NoVal
    /\ ret'.err = "HttpError"
    /\ \A k \in NewRequests : /\ ret'.msg.method = wire'[k].method
                       /\ ret'.msg.url = wire'[k].url
                       /\ ret'.msg.message = StatusMessage(server, wire'[k].url)
    /\ ret'.msg.status_code = server
    /\ ret'.msg.response_text = PyVal(ResponseText(text))

\* C22 as stated. Whenever the server answers an HTTP operation of the client with a
\* status that is not 2xx, the operation raises HttpError with the method, the URL,
\* the status code, the message and the body of the response and returns no value;
\* a 2xx answer never raises HttpError.
C22_NonSuccessRaises ==
    [][Answered =>
          IF server \in 200..299 THEN ret'.err # "HttpError" ELSE RaisedHttpError]_vars

\* C22. Whenever the server answers an HTTP operation of the client with a 4xx or 5xx
\* status, the operation raises HttpError with the method, the URL, the status code,
\* the message and the body of the response and returns no value; any other answer,
\* 2xx or a 3xx that reaches the caller, never raises HttpError.
C22_ErrorStatusRaises ==
    [][Answered =>
          IF IsHttpError(server) THEN RaisedHttpError ELSE ret'.err # "HttpError"]_vars

\* a PUT was answered with 404 and the body that is no UTF-8
C22_Witness ==
    /\ call = "create"
    /\ ret.err = "HttpError"
    /\ ret.msg.method = "PUT"
    /\ ret.msg.status_code = 404
    /\ ret.msg.url = wire[Len(wire)].url
    /\ ret.msg.response_text = PyVal(<<ReplacementChar>>)

\* a GET was answered with 304 and the operation returned the text of the body
C22_WitnessNotModified ==
    /\ call = "download_turtle"
    /\ server = 304
    /\ Len(wire) = 1
    /\ ret = Ok(ResponseText(text))

-----------------------------------------------------------------------------
(* Claims about the requests an invocation issues (checked under SpecHttp) *)

\* the operations of the facade
FacadeOps == TextOps \cup {"query"}

\* the step invokes an operation of the facade with arguments that pass validation
ValidInvocation == InvokedStep /\ call' \in FacadeOps /\ ret'.err # "ValidationError"

\* the request fails: no response, or an error status
RequestFails == server = 0 \/ IsHttpError(server)

\* the invocation of the step has added to wire and kept what was there
Appended == Len(wire') >= Len(wire) /\ SubSeq(wire', 1, Len(wire)) = wire

\* the outcome of an endpoint listing is the one the server's present answer gives
PresentListing ==
    /\ call' = "list_raw" =>
          ret' = list_raw(clients[1].base_url, rectify, server, text)
    /\ call' = "list" =>
          ret' = list(clients[1].base_url, rectify, server, text)
    /\ call' = "datasets_list" =>
          ret' = datasets_list(clients[1].base_url, rectify, server, text)

\* the turtlefile of the upload of the step cannot be opened
Unopenable == call' = "upload_turtlefile" /\ ~args'.readable

\* C21 as stated. Every invocation of a facade operation that passes validation issues
\* exactly one outbound request: a failed request is not retried and fails the
\* invocation, and a repeated invocation issues a fresh request and reports the
\* server's present answer, not an earlier result.
C21_ExactlyOneRequest ==
    [][ValidInvocation =>
          /\ Appended
          /\ Cardinality(NewRequests) = 1
          /\ RequestFails => ~ret'.ok
          /\ PresentListing]_vars

\* C21. Every invocation of a facade operation that passes validation issues exactly
\* one outbound request, except an upload whose turtlefile cannot be opened, which
\* issues none and raises the error of open(); a failed request is not retried and
\* fails the invocation, and a repeated invocation issues a fresh request and reports
\* the server's present answer, not an earlier result.
C21_OneRequestUnlessUnopenable ==
    [][ValidInvocation =>
          /\ Appended
          /\ IF Unopenable
             THEN NewRequests = {} /\ ret'.err = "FileNotFoundError"
             ELSE /\ Cardinality(NewRequests) = 1
                  /\ RequestFails => ~ret'.ok
          /\ PresentListing]_vars

\* list_raw was invoked twice: both invocations sent the same request, the second
\* one failed with the server's error
C21_Witness ==
    /\ call = "list_raw"
    /\ Len(wire) = 2
    /\ wire[1].io = "request"
    /\ wire[2] = wire[1]
    /\ ret.err = "HttpError"
    /\ ret.msg.status_code = 500

\* an upload passed validation and sent nothing: the file could not be opened
C21_WitnessUnopenable ==
    /\ call = "upload_turtlefile"
    /\ ret.err = "FileNotFoundError"
    /\ wire = <<FileOpenFailed(args.turtlefile)>>

-----------------------------------------------------------------------------
(* Claims about the file handles of uploads and downloads (checked under SpecHttp) *)

\* the handle opened by event k of wire has been closed since
Released(k) ==
    \E j \in (k + 1)..Len(wire) : wire[j].io = "close" /\ wire[j].path = wire[k].path

\* the operations that open their file in a "with" statement have released every
\* handle they opened when they return or raise
ScopedOpsRelease ==
    [][(InvokedStep /\ call' \in {"upload_turtlefile", "download_dataset_as_turtle_file"}) =>
          \A k \in (Len(wire) + 1)..Len(wire') :
              wire'[k].io = "open" =>
                  \E j \in (k + 1)..Len(wire') :
                      wire'[j].io = "close" /\ wire'[j].path = wire'[k].path]_vars

\* C23. Every file handle opened by Datasets.upload_turtlefile, the legacy
\* upload_turtlefile or the legacy download_dataset_as_turtle_file is released by the
\* time the operation returns or raises, whether the request failed, the server
\* answered with an error status, or the body could not be decoded.
C23_HandlesReleased ==
    \A k \in 1..Len(wire) : wire[k].io = "open" => Released(k)

====
